---------------------------- MODULE Spec2Model ----------------------------
(***************************************************************************)
(* A model of the provenance recorder (package prov): the run catalog      *)
(* (indexdb.py), the reference resolver (resolve.py, runstore.py), the     *)
(* tag/run disambiguator (tagging.py) and the diff engine (diff.py).       *)
(*                                                                         *)
(* Python strings are modelled as sequences of one-character strings, so   *)
(* that strip(), isdigit(), startswith(), int() and the regular            *)
(* expressions are computed rather than assumed.                           *)
(***************************************************************************)
EXTENDS Integers, Sequences, FiniteSets, TLC

VARIABLES
    tagIn,      \* arguments of one resolve_tag_args call
    tagOut,     \* its outcome: a (run_ref, tag_name) pair or an error kind
    diffIn,     \* arguments of one diff_runs call: two loaded runs, fail_on
    diffOut,    \* its result object and exit code
    hashIn,     \* arguments of one _diff_hashmaps call: two path -> hash maps
    hashOut,    \* its result in both directions: (a, b) and (b, a)
    index,      \* the catalog document .prov/index.json
    fs,         \* the file system: absolute path -> "dir" or "file"
    doc,        \* the text of .prov/index.json as one load_index call finds it
    loadOut,    \* the outcome of that load_index call
    procs,      \* concurrent commands: each one's position and loaded catalog
    runDocs,    \* the run documents: run directory name -> fields of its run.json
    res         \* the last operation: its name, arguments and outcome

tagVars == <<tagIn, tagOut>>

diffVars == <<diffIn, diffOut>>

hashVars == <<hashIn, hashOut>>

loadVars == <<doc, loadOut>>

procVars == <<procs>>

storeVars == <<runDocs>>

catVars == <<index, fs, res>>

vars == <<tagIn, tagOut, diffIn, diffOut, hashIn, hashOut, doc, loadOut, procs, runDocs, index, fs, res>>

-----------------------------------------------------------------------------
(* Characters and the str methods the code uses                            *)

Digits == {"0", "1", "2", "3", "4", "5", "6", "7", "8", "9"}

Lower == {"a", "b", "c", "d", "e", "f", "g", "h", "i", "j", "k", "l", "m",
          "n", "o", "p", "q", "r", "s", "t", "u", "v", "w", "x", "y", "z"}

Upper == {"A", "B", "C", "D", "E", "F", "G", "H", "I", "J", "K", "L", "M",
          "N", "O", "P", "Q", "R", "S", "T", "U", "V", "W", "X", "Y", "Z"}

Alnum == Digits \cup Lower \cup Upper

Whitespace == {" ", "\t", "\n", "\r"}

\* str.isspace() of one character
isspace(ch) == ch \in Whitespace

RECURSIVE lstrip(_)
lstrip(s) ==
    IF s = <<>> THEN <<>>
    ELSE IF isspace(Head(s)) THEN lstrip(Tail(s)) ELSE s

RECURSIVE rstrip(_)
rstrip(s) ==
    IF s = <<>> THEN <<>>
    ELSE IF isspace(s[Len(s)]) THEN rstrip(SubSeq(s, 1, Len(s) - 1)) ELSE s

\* str.strip()
strip(s) == rstrip(lstrip(s))

\* str.isdigit(): false for the empty string
isdigit(s) == Len(s) > 0 /\ \A i \in 1..Len(s) : s[i] \in Digits

DigitValue(ch) ==
    CASE ch = "0" -> 0 [] ch = "1" -> 1 [] ch = "2" -> 2 [] ch = "3" -> 3
      [] ch = "4" -> 4 [] ch = "5" -> 5 [] ch = "6" -> 6 [] ch = "7" -> 7
      [] ch = "8" -> 8 [] ch = "9" -> 9

\* int(s) for a string of decimal digits
RECURSIVE int(_)
int(s) ==
    IF s = <<>> THEN 0
    ELSE 10 * int(SubSeq(s, 1, Len(s) - 1)) + DigitValue(s[Len(s)])

\* s.startswith("#") and s[1:].isdigit()
HashDigits(s) == Len(s) > 0 /\ s[1] = "#" /\ isdigit(Tail(s))

-----------------------------------------------------------------------------
(* indexdb.py: the tag-name grammar                                        *)

\* _TAG_RE.fullmatch(tag) for ^[A-Za-z0-9][A-Za-z0-9._-]*$
TAG_RE(tag) ==
    /\ Len(tag) > 0
    /\ tag[1] \in Alnum
    /\ \A i \in 2..Len(tag) : tag[i] \in Alnum \cup {".", "_", "-"}

\* validate_tag_name without the all-digits test
validate_tag_name_digits_allowed(tag) ==
    /\ strip(tag) = tag
    /\ ~ \E i \in 1..Len(tag) : isspace(tag[i])
    /\ ~ HashDigits(tag)
    /\ TAG_RE(tag)

\* validate_tag_name(tag) returns normally (TRUE) or raises ValueError (FALSE)
validate_tag_name(tag) ==
    /\ strip(tag) = tag
    /\ ~ \E i \in 1..Len(tag) : isspace(tag[i])
    /\ ~ isdigit(tag)
    /\ ~ HashDigits(tag)
    /\ TAG_RE(tag)

-----------------------------------------------------------------------------
(* tagging.py: the tag/run disambiguator                                   *)

\* _RUN_ID_RE.fullmatch(s) for \d{4}-\d{2}-\d{2}T\d{2}-\d{2}-\d{2}Z_[A-Za-z0-9]+
RUN_ID_RE(s) ==
    /\ Len(s) >= 22
    /\ \A i \in {1, 2, 3, 4, 6, 7, 9, 10, 12, 13, 15, 16, 18, 19} : s[i] \in Digits
    /\ \A i \in {5, 8, 14, 17} : s[i] = "-"
    /\ s[11] = "T"
    /\ s[20] = "Z"
    /\ s[21] = "_"
    /\ \A i \in 22..Len(s) : s[i] \in Alnum

looks_like_run_id(x) == RUN_ID_RE(strip(x))

\* an ordinal test that knows '#N' only
looks_like_ordinal_hash_only(x) ==
    LET t == strip(x) IN HashDigits(t)

looks_like_ordinal(x) ==
    LET t == strip(x) IN isdigit(t) \/ HashDigits(t)

\* explicit-run-ish without the path-separator case
explicit_runish_no_path_sep(I) == I.is_ordinal \/ I.looks_like_run_id

\* ArgInfo.explicit_runish
explicit_runish(I) == I.is_ordinal \/ I.looks_like_run_id \/ I.has_path_sep

\* _info(x): the predicates are evaluated on the stripped token
ArgInfo(x, existing_tags, tag_ok, run_ok) ==
    LET t == strip(x) IN
    [ raw               |-> t,
      is_ordinal        |-> looks_like_ordinal(t),
      looks_like_run_id |-> looks_like_run_id(t),
      has_path_sep      |-> (\E i \in 1..Len(t) : t[i] = "/")
                            \/ (\E i \in 1..Len(t) : t[i] = "\\"),
      tag_ok            |-> t \in tag_ok,
      run_ok            |-> t \in run_ok,
      existing_tag      |-> t \in existing_tags ]

\* Outcomes of resolve_tag_args: a returned pair, or the exception raised.
\* rule is the number the code's comments give the deciding block.
Pair(run, tag, n) ==
    [kind |-> "ok", run_ref |-> run, tag_name |-> tag, rule |-> n]

Raise(exc, n) ==
    [kind |-> exc, run_ref |-> <<>>, tag_name |-> <<>>, rule |-> n]

NoMatch == [kind |-> "nomatch", run_ref |-> <<>>, tag_name |-> <<>>, rule |-> 0]

\* 1) Ordinals win
Rule1(A, B) ==
    IF A.is_ordinal /\ ~B.is_ordinal THEN Pair(A.raw, B.raw, 1)
    ELSE IF B.is_ordinal /\ ~A.is_ordinal THEN Pair(B.raw, A.raw, 1)
    ELSE NoMatch

\* 2) existing tag + run-ok: accepted only if the run side is explicit-run-ish
Rule2(A, B) ==
    IF A.existing_tag /\ B.run_ok
    THEN IF explicit_runish(B) THEN Pair(B.raw, A.raw, 2)
         ELSE Raise("TagAmbiguity", 2)
    ELSE IF B.existing_tag /\ A.run_ok
    THEN IF explicit_runish(A) THEN Pair(A.raw, B.raw, 2)
         ELSE Raise("TagAmbiguity", 2)
    ELSE NoMatch

\* rule 3 looking at the first token as the existing tag only
Rule3_first_token_only(A, B) ==
    IF A.existing_tag /\ B.tag_ok /\ ~B.run_ok /\ ~explicit_runish(B)
    THEN Raise("TagAmbiguity", 3)
    ELSE NoMatch

\* 3) existing tag + tag-like other argument
Rule3(A, B) ==
    IF A.existing_tag /\ B.tag_ok /\ ~B.run_ok /\ ~explicit_runish(B)
    THEN Raise("TagAmbiguity", 3)
    ELSE IF B.existing_tag /\ A.tag_ok /\ ~A.run_ok /\ ~explicit_runish(A)
    THEN Raise("TagAmbiguity", 3)
    ELSE NoMatch

\* 4) exactly one side resolves to a run and the other is tag-like
Rule4(A, B) ==
    IF A.run_ok /\ B.tag_ok /\ ~B.run_ok THEN Pair(A.raw, B.raw, 4)
    ELSE IF B.run_ok /\ A.tag_ok /\ ~A.run_ok THEN Pair(B.raw, A.raw, 4)
    ELSE NoMatch

\* rules 5 and 6 without the "neither resolves to a run" block
Rule56_without_no_run(A, B) ==
    IF A.run_ok /\ B.run_ok THEN Raise("TagTwoRuns", 5)
    ELSE NoMatch

\* 5) both resolve to runs; 6) neither resolves to a run
Rule56(A, B) ==
    IF A.run_ok /\ B.run_ok THEN Raise("TagTwoRuns", 5)
    ELSE IF ~A.run_ok /\ ~B.run_ok THEN Raise("TagNoRun", 6)
    ELSE NoMatch

\* 7) fallback: assume a is the run, b is the tag
Rule7(A, B) == Pair(A.raw, B.raw, 7)

FirstMatch(rs) ==
    LET hit == {i \in 1..Len(rs) : rs[i] # NoMatch}
    IN  rs[CHOOSE i \in hit : \A j \in hit : i <= j]

resolve_tag_args(a, b, existing_tags, tag_ok, run_ok) ==
    LET A == ArgInfo(a, existing_tags, tag_ok, run_ok)
        B == ArgInfo(b, existing_tags, tag_ok, run_ok)
    IN  FirstMatch(<<Rule1(A, B), Rule2(A, B), Rule3(A, B), Rule4(A, B),
                     Rule56(A, B), Rule7(A, B)>>)

-----------------------------------------------------------------------------
(* Ordering of strings, as sorted() on Python str: by code point, a proper *)
(* prefix first.                                                           *)

ASCII ==
    << "\t", "\n", "\r", " ", "!", "#", "-", ".", "/",
       "0", "1", "2", "3", "4", "5", "6", "7", "8", "9", ":",
       "A", "B", "C", "D", "E", "F", "G", "H", "I", "J", "K", "L", "M",
       "N", "O", "P", "Q", "R", "S", "T", "U", "V", "W", "X", "Y", "Z",
       "\\", "_",
       "a", "b", "c", "d", "e", "f", "g", "h", "i", "j", "k", "l", "m",
       "n", "o", "p", "q", "r", "s", "t", "u", "v", "w", "x", "y", "z" >>

ord(ch) == CHOOSE i \in 1..Len(ASCII) : ASCII[i] = ch

RECURSIVE StrLess(_, _)
StrLess(s, t) ==
    IF t = <<>> THEN FALSE
    ELSE IF s = <<>> THEN TRUE
    ELSE IF Head(s) = Head(t) THEN StrLess(Tail(s), Tail(t))
    ELSE ord(Head(s)) < ord(Head(t))

\* sorted(S) for a set of strings
RECURSIVE sorted(_)
sorted(S) ==
    IF S = {} THEN <<>>
    ELSE LET m == CHOOSE x \in S : \A y \in S \ {x} : StrLess(x, y)
         IN  <<m>> \o sorted(S \ {m})

Range(f) == {f[i] : i \in DOMAIN f}

-----------------------------------------------------------------------------
(* diff.py: the diff engine.  A loaded run is the run.json object:         *)
(*   inputs, outputs : path -> meta, meta = [has_hash, hash]               *)
(*   params          : [present, has_hash, hash] (null or a dict)          *)
(*   environment     : [python_version, platform]                          *)
(*   warnings        : sequence of [is_str, text] or [is_str, code, message] *)
(*   git             : [present] (key missing) or [present, is_null, ...]  *)
(* An Optional[str] is <<>> for None and <<h>> for a value.                *)

\* _fingerprint_map(run, key): the path -> hash map of the entries with a hash
fingerprint_map(m) ==
    [p \in {q \in DOMAIN m : m[q].has_hash} |-> m[p].hash]

\* a diff that lists every path of b as added
diff_hashmaps_added_all_of_b(a, b) ==
    LET a_keys == DOMAIN a
        b_keys == DOMAIN b
        common == sorted(a_keys \cap b_keys)
    IN  [ added     |-> sorted(b_keys),
          removed   |-> sorted(a_keys \ b_keys),
          changed   |-> SelectSeq(common, LAMBDA k : a[k] # b[k]),
          unchanged |-> SelectSeq(common, LAMBDA k : a[k] = b[k]) ]

\* a diff that never lists a removed path
diff_hashmaps_nothing_removed(a, b) ==
    LET a_keys == DOMAIN a
        b_keys == DOMAIN b
        common == sorted(a_keys \cap b_keys)
    IN  [ added     |-> sorted(b_keys \ a_keys),
          removed   |-> <<>>,
          changed   |-> SelectSeq(common, LAMBDA k : a[k] # b[k]),
          unchanged |-> SelectSeq(common, LAMBDA k : a[k] = b[k]) ]

\* _diff_hashmaps(a, b)
diff_hashmaps(a, b) ==
    LET a_keys == DOMAIN a
        b_keys == DOMAIN b
        common == sorted(a_keys \cap b_keys)
    IN  [ added     |-> sorted(b_keys \ a_keys),
          removed   |-> sorted(a_keys \ b_keys),
          changed   |-> SelectSeq(common, LAMBDA k : a[k] # b[k]),
          unchanged |-> SelectSeq(common, LAMBDA k : a[k] = b[k]) ]

\* _params_fingerprint(run)
params_fingerprint(p) ==
    IF ~p.present THEN <<>>
    ELSE IF p.has_hash THEN <<p.hash>>
    ELSE <<>>

\* _env_fingerprint(run)
env_fingerprint(env) ==
    [python_version |-> env.python_version, platform |-> env.platform]

\* _warnings_list(run): message, else code, else str(item)
warnings_list(w) ==
    [ i \in 1..Len(w) |->
        IF w[i].is_str THEN w[i].text
        ELSE IF w[i].message # "" THEN w[i].message
        ELSE IF w[i].code # "" THEN w[i].code
        ELSE "{}" ]

\* a fingerprint that reads a missing "git" key as a null snapshot
git_fingerprint_missing_as_null(g) ==
    [ recorded  |-> TRUE,
      is_repo   |-> g.is_repo,
      commit    |-> g.commit,
      describe  |-> g.describe,
      branch    |-> g.branch,
      detached  |-> g.detached,
      dirty     |-> g.dirty,
      untracked |-> g.untracked ]

\* _git_fingerprint(run)
git_fingerprint(g) ==
    IF ~g.present THEN [recorded |-> FALSE]
    ELSE [ recorded  |-> TRUE,
           is_repo   |-> g.is_repo,
           commit    |-> g.commit,
           describe  |-> g.describe,
           branch    |-> g.branch,
           detached  |-> g.detached,
           dirty     |-> g.dirty,
           untracked |-> g.untracked ]

GitReasonFields == <<"commit", "branch", "detached", "dirty", "untracked">>

\* a comparison that reports a missing snapshot as a change
git_changed_missing_is_change(a, b) ==
    IF ~a.recorded \/ ~b.recorded
    THEN [changed |-> TRUE, reasons |-> <<"not recorded">>]
    ELSE IF a.is_repo # b.is_repo
    THEN [changed |-> TRUE, reasons |-> <<"repo status changed">>]
    ELSE IF ~a.is_repo /\ ~b.is_repo
    THEN [changed |-> FALSE, reasons |-> <<>>]
    ELSE LET reasons == SelectSeq(GitReasonFields, LAMBDA k : a[k] # b[k])
         IN  [changed |-> Len(reasons) > 0, reasons |-> reasons]

\* a comparison of repositories that looks at describe as well
git_changed_compares_describe(a, b) ==
    IF ~a.recorded \/ ~b.recorded
    THEN [ changed |-> FALSE,
           reasons |-> IF ~a.recorded /\ ~b.recorded
                         THEN <<"not recorded (A, B)">>
                       ELSE IF ~a.recorded THEN <<"not recorded (A)">>
                       ELSE <<"not recorded (B)">> ]
    ELSE IF a.is_repo # b.is_repo
    THEN [changed |-> TRUE, reasons |-> <<"repo status changed">>]
    ELSE IF ~a.is_repo /\ ~b.is_repo
    THEN [changed |-> FALSE, reasons |-> <<>>]
    ELSE LET reasons == SelectSeq(<<"commit", "describe", "branch", "detached", "dirty", "untracked">>,
                                  LAMBDA k : a[k] # b[k])
         IN  [changed |-> Len(reasons) > 0, reasons |-> reasons]

\* _git_changed(a, b): (changed, reasons)
git_changed(a, b) ==
    IF ~a.recorded \/ ~b.recorded
    THEN [ changed |-> FALSE,
           reasons |-> IF ~a.recorded /\ ~b.recorded
                         THEN <<"not recorded (A, B)">>
                       ELSE IF ~a.recorded THEN <<"not recorded (A)">>
                       ELSE <<"not recorded (B)">> ]
    ELSE IF a.is_repo # b.is_repo
    THEN [changed |-> TRUE, reasons |-> <<"repo status changed">>]
    ELSE IF ~a.is_repo /\ ~b.is_repo
    THEN [changed |-> FALSE, reasons |-> <<>>]
    ELSE LET reasons == SelectSeq(GitReasonFields, LAMBDA k : a[k] # b[k])
         IN  [changed |-> Len(reasons) > 0, reasons |-> reasons]

\* truth-changed that never looks at the params
truth_changed_ignores_params(diff_inputs, params_changed) ==
    \/ diff_inputs.added # <<>>
    \/ diff_inputs.removed # <<>>
    \/ diff_inputs.changed # <<>>

\* _truth_changed(diff_inputs, params_changed)
truth_changed(diff_inputs, params_changed) ==
    \/ diff_inputs.added # <<>>
    \/ diff_inputs.removed # <<>>
    \/ diff_inputs.changed # <<>>
    \/ params_changed

\* any-changed that never looks at the warnings
any_changed_ignores_warnings(truth, diff_outputs, env_changed, warnings_changed, git_chg) ==
    \/ truth
    \/ (diff_outputs.added # <<>> \/ diff_outputs.removed # <<>>
          \/ diff_outputs.changed # <<>>)
    \/ env_changed
    \/ git_chg

\* _any_changed(truth_changed, diff_outputs, env_changed, warnings_changed, git_changed)
any_changed(truth, diff_outputs, env_changed, warnings_changed, git_chg) ==
    \/ truth
    \/ (diff_outputs.added # <<>> \/ diff_outputs.removed # <<>>
          \/ diff_outputs.changed # <<>>)
    \/ env_changed
    \/ warnings_changed
    \/ git_chg

\* an exit code that, under fail-on truth, fails on any change
exit_code_truth_fails_on_any(fail_on, truth, any) ==
    IF fail_on = "none" THEN 0
    ELSE IF fail_on = "truth" /\ any THEN 5
    ELSE IF fail_on = "any" /\ any THEN 5
    ELSE 0

\* the exit code diff_runs returns
exit_code(fail_on, truth, any) ==
    IF fail_on = "none" THEN 0
    ELSE IF fail_on = "truth" /\ truth THEN 5
    ELSE IF fail_on = "any" /\ any THEN 5
    ELSE 0

\* diff_runs on two loaded runs: the result object and the exit code
diff_runs(ra, rb, fail_on) ==
    LET diff_inputs  == diff_hashmaps(fingerprint_map(ra.inputs),
                                      fingerprint_map(rb.inputs))
        diff_outputs == diff_hashmaps(fingerprint_map(ra.outputs),
                                      fingerprint_map(rb.outputs))
        a_params == params_fingerprint(ra.params)
        b_params == params_fingerprint(rb.params)
        params_changed == a_params # b_params
        env_changed == env_fingerprint(ra.environment) # env_fingerprint(rb.environment)
        a_warn == warnings_list(ra.warnings)
        b_warn == warnings_list(rb.warnings)
        warnings_changed == a_warn # b_warn
        git == git_changed(git_fingerprint(ra.git), git_fingerprint(rb.git))
        truth == truth_changed(diff_inputs, params_changed)
        any == any_changed(truth, diff_outputs, env_changed, warnings_changed,
                           git.changed)
    IN  [ inputs      |-> diff_inputs,
          outputs     |-> diff_outputs,
          params      |-> [a |-> a_params, b |-> b_params, changed |-> params_changed],
          environment |-> [changed |-> env_changed],
          warnings    |-> [a |-> a_warn, b |-> b_warn, changed |-> warnings_changed],
          git         |-> git,
          summary     |-> [truth_changed |-> truth, any_changed |-> any],
          exit        |-> exit_code(fail_on, truth, any) ]

-----------------------------------------------------------------------------
(* Results of operations that may raise                                    *)

Ok(v) == [ok |-> TRUE, val |-> v, err |-> ""]

Err(e) == [ok |-> FALSE, val |-> <<>>, err |-> e]

-----------------------------------------------------------------------------
(* indexdb.py: timestamps and the ordering of the catalog                  *)

\* s matches dddd-dd-ddTdd:dd:dd
IsoShape(s) ==
    /\ Len(s) = 19
    /\ \A i \in {1, 2, 3, 4, 6, 7, 9, 10, 12, 13, 15, 16, 18, 19} : s[i] \in Digits
    /\ s[5] = "-" /\ s[8] = "-" /\ s[11] = "T" /\ s[14] = ":" /\ s[17] = ":"

IsLeap(y) == (y % 4 = 0 /\ y % 100 # 0) \/ y % 400 = 0

DaysInMonth(y, m) ==
    IF m = 2 THEN (IF IsLeap(y) THEN 29 ELSE 28)
    ELSE IF m \in {4, 6, 9, 11} THEN 30 ELSE 31

\* days since 1970-01-01 of a civil date
DaysFromCivil(y, m, d) ==
    LET yy  == IF m <= 2 THEN y - 1 ELSE y
        era == yy \div 400
        yoe == yy - era * 400
        mp  == (m + 9) % 12
        doy == (153 * mp + 2) \div 5 + d - 1
        doe == yoe * 365 + yoe \div 4 - yoe \div 100 + doy
    IN  era * 146097 + doe - 719468

ParseError == -1

\* the POSIX timestamp of the fields of dddd-dd-ddTdd:dd:dd read as UTC
FieldsToTimestamp(s) ==
    LET y  == int(SubSeq(s, 1, 4))
        mo == int(SubSeq(s, 6, 7))
        d  == int(SubSeq(s, 9, 10))
        h  == int(SubSeq(s, 12, 13))
        mi == int(SubSeq(s, 15, 16))
        se == int(SubSeq(s, 18, 19))
    IN  IF /\ y >= 1 /\ mo \in 1..12 /\ d \in 1..DaysInMonth(y, mo)
           /\ h \in 0..23 /\ mi \in 0..59 /\ se \in 0..59
        THEN DaysFromCivil(y, mo, d) * 86400 + h * 3600 + mi * 60 + se
        ELSE ParseError

\* _parse_ts(ts): seconds since the epoch, or ParseError when it raises.
\* Two-digit month..second fields; a string without Z is read by
\* fromisoformat and taken as UTC.
parse_ts(ts) ==
    LET t == strip(ts) IN
    IF t = <<>> THEN ParseError
    ELSE IF t[Len(t)] = "Z"
    THEN LET body == SubSeq(t, 1, Len(t) - 1)
         IN  IF IsoShape(body) THEN FieldsToTimestamp(body) ELSE ParseError
    ELSE IF IsoShape(t) THEN FieldsToTimestamp(t) ELSE ParseError

\* list.sort(key=...) is stable: x goes after every element whose key is
\* not greater
RECURSIVE InsertByKey(_, _)
InsertByKey(sortedSeq, x) ==
    IF sortedSeq = <<>> THEN <<x>>
    ELSE IF x[1] < Head(sortedSeq)[1] THEN <<x>> \o sortedSeq
    ELSE <<Head(sortedSeq)>> \o InsertByKey(Tail(sortedSeq), x)

\* a sort that leaves the list as it is
SortByKey_no_sort(seq) == seq

RECURSIVE SortByKey(_)
SortByKey(seq) ==
    IF seq = <<>> THEN <<>>
    ELSE InsertByKey(SortByKey(SubSeq(seq, 1, Len(seq) - 1)), seq[Len(seq)])

\* IndexDB.ordered_run_ids(): a catalog entry is
\* [is_dict, run_id, name, timestamp, path]; a missing, null or empty
\* run_id or timestamp is the empty string
ordered_run_ids(runs) ==
    LET keep(r) == r.is_dict /\ r.run_id # <<>> /\ r.timestamp # <<>>
                     /\ parse_ts(r.timestamp) # ParseError
        kept     == SelectSeq(runs, keep)
        sortable == [i \in 1..Len(kept) |-> <<parse_ts(kept[i].timestamp), kept[i].run_id>>]
        ordered  == SortByKey(sortable)
    IN  [i \in 1..Len(ordered) |-> ordered[i][2]]

\* resolve_ordinal with the lower bound test n < 0: ordered[n - 1] for n = 0
\* is then Python's ordered[-1], the last element
resolve_ordinal_zero_is_last(idx, n) ==
    LET ordered == ordered_run_ids(idx.runs) IN
    IF n < 0 \/ n > Len(ordered) THEN Err("ValueError")
    ELSE IF n = 0
    THEN (IF Len(ordered) = 0 THEN Err("IndexError") ELSE Ok(ordered[Len(ordered)]))
    ELSE Ok(ordered[n])

\* IndexDB.resolve_ordinal(n)
resolve_ordinal(idx, n) ==
    LET ordered == ordered_run_ids(idx.runs) IN
    IF n < 1 \/ n > Len(ordered) THEN Err("ValueError") ELSE Ok(ordered[n])

-----------------------------------------------------------------------------
(* pathlib: a path is a sequence of components; the file system maps the   *)
(* absolute paths that exist to "dir" or "file".                           *)

Cwd == << <<"w">> >>

Root == <<>>

RECURSIVE SplitOn(_, _, _)
\* the pieces of s between occurrences of the character sep
SplitOn(s, sep, cur) ==
    IF s = <<>> THEN <<cur>>
    ELSE IF Head(s) = sep THEN <<cur>> \o SplitOn(Tail(s), sep, <<>>)
    ELSE SplitOn(Tail(s), sep, Append(cur, Head(s)))

\* Path(s) for a relative s: empty and "." components are dropped
Path(s) ==
    SelectSeq(SplitOn(s, "/", <<>>), LAMBDA c : c # <<>> /\ c # <<".">>)

\* Path.resolve()
resolve(p) == Cwd \o p

\* Path.parent of an absolute path
parent(abs) == IF abs = Root THEN Root ELSE SubSeq(abs, 1, Len(abs) - 1)

\* Path.name
name(p) == IF p = <<>> THEN <<>> ELSE p[Len(p)]

exists(files, p) == resolve(p) \in DOMAIN files

is_file(files, p) == exists(files, p) /\ files[resolve(p)] = "file"

RECURSIVE Join(_, _)
Join(parts, sep) ==
    IF parts = <<>> THEN <<>>
    ELSE IF Len(parts) = 1 THEN parts[1]
    ELSE parts[1] \o <<sep>> \o Join(Tail(parts), sep)

\* str(path)
PathStr(p) == Join(p, "/")

prov_dir_name == <<".", "p", "r", "o", "v">>

runs_dir_name == <<"r", "u", "n", "s">>

index_file_name == <<"i", "n", "d", "e", "x", ".", "j", "s", "o", "n">>

\* the --prov-dir default, Path(".prov")
prov_dir == <<prov_dir_name>>

-----------------------------------------------------------------------------
(* runstore.py and resolve.py: the reference resolver                      *)

RECURSIVE WalkUp(_, _)
\* the loop of _find_run_dir: the ancestor whose parent is runs_root, or
\* the file system root
WalkUp(cur, runs_root) ==
    IF parent(cur) = runs_root THEN cur
    ELSE IF cur = parent(cur) THEN cur
    ELSE WalkUp(parent(cur), runs_root)

\* _find_run_dir(prov_dir, p), as an absolute path; p exists
\* the end of _find_run_dir: top is where the walk from start stopped
found_run_dir(files, top, start, runs_root) ==
    IF parent(top) = runs_root THEN top
    ELSE IF top \in DOMAIN files THEN top
    ELSE start

\* _find_run_dir from the directory the walk starts at
find_run_dir_from(files, start, runs_root) ==
    found_run_dir(files, WalkUp(start, runs_root), start, runs_root)

find_run_dir(files, p) ==
    find_run_dir_from(files,
                      IF is_file(files, p) THEN parent(resolve(p)) ELSE resolve(p),
                      resolve(prov_dir \o <<runs_dir_name>>))

\* a resolver that looks the token up as a tag before it looks for a path
resolve_user_ref_tag_first(files, idx, ref) ==
    LET r == strip(ref) IN
    IF r \in DOMAIN idx.tags THEN Ok(idx.tags[r])
    ELSE IF exists(files, Path(r)) THEN Ok(r)
    ELSE IF HashDigits(r) THEN resolve_ordinal(idx, int(Tail(r)))
    ELSE IF isdigit(r) THEN resolve_ordinal(idx, int(r))
    ELSE Ok(r)

\* resolve.resolve_user_ref(prov_dir, ref)
resolve_user_ref(files, idx, ref) ==
    LET r == strip(ref) IN
    IF exists(files, Path(r)) THEN Ok(r)
    ELSE IF r \in DOMAIN idx.tags THEN Ok(idx.tags[r])
    ELSE IF HashDigits(r) THEN resolve_ordinal(idx, int(Tail(r)))
    ELSE IF isdigit(r) THEN resolve_ordinal(idx, int(r))
    ELSE Ok(r)

\* runstore.resolve_ref(prov_dir, ref)
resolve_ref(files, idx, ref) ==
    LET r == strip(ref) IN
    IF exists(files, Path(r)) THEN Ok(r)
    ELSE IF r \in DOMAIN idx.tags THEN Ok(idx.tags[r])
    ELSE IF HashDigits(r) THEN resolve_ordinal(idx, int(Tail(r)))
    ELSE IF isdigit(r) THEN resolve_ordinal(idx, int(r))
    ELSE Ok(r)

\* runstore.run_id_from_ref(prov_dir, ref)
\* the tail of run_id_from_ref; resolved is the outcome of resolve_ref
run_id_of_ref(files, resolved) ==
    IF ~resolved.ok THEN resolved
    ELSE IF exists(files, Path(resolved.val))
    THEN Ok(name(find_run_dir(files, Path(resolved.val))))
    ELSE resolved

run_id_from_ref(files, idx, ref) == run_id_of_ref(files, resolve_ref(files, idx, ref))

\* runstore.run_dir_from_ref(prov_dir, run_ref), as an absolute path
\* the tail of run_dir_from_ref; resolved is the outcome of resolve_ref
run_dir_of_resolved(files, resolved) ==
    IF ~resolved.ok THEN resolved
    ELSE IF exists(files, Path(resolved.val))
    THEN Ok(find_run_dir(files, Path(resolved.val)))
    ELSE Ok(resolve(prov_dir \o <<runs_dir_name>> \o Path(resolved.val)))

run_dir_from_ref(files, idx, run_ref) ==
    run_dir_of_resolved(files, resolve_ref(files, idx, run_ref))

NotEnoughRuns == Err("RuntimeError")

None == <<>>

Some(x) == <<x>>

\* the "no args" block returning (ordered[-1], ordered[-2])
last_two_latest_first(ordered) ==
    IF Len(ordered) < 2 THEN NotEnoughRuns
    ELSE Ok(<<ordered[Len(ordered)], ordered[Len(ordered) - 1]>>)

\* the "no args" block of both resolve_run_pair functions: the last two runs
last_two(ordered) ==
    IF Len(ordered) < 2 THEN NotEnoughRuns
    ELSE Ok(<<ordered[Len(ordered) - 1], ordered[Len(ordered)]>>)

\* the "one arg" block of resolve.resolve_run_pair; a_resolved is the
\* outcome of resolve_user_ref(prov_dir, run_a), computed after the length
\* check
one_arg_pair(files, ordered, a_resolved) ==
    IF Len(ordered) < 2 THEN NotEnoughRuns
    ELSE IF ~a_resolved.ok THEN a_resolved
    ELSE LET latest == ordered[Len(ordered)]
             prev == ordered[Len(ordered) - 1]
             a_id == IF exists(files, Path(a_resolved.val))
                       THEN name(Path(a_resolved.val))
                     ELSE a_resolved.val
         IN  IF a_id = latest THEN Ok(<<prev, latest>>)
             ELSE Ok(<<a_resolved.val, latest>>)

\* the "two args" block of resolve.resolve_run_pair
two_arg_pair(ra, rb) ==
    IF ~ra.ok THEN ra
    ELSE IF ~rb.ok THEN rb
    ELSE Ok(<<ra.val, rb.val>>)

\* resolve.resolve_run_pair(prov_dir, run_a, run_b): the one the CLI uses.
\* An omitted argument is None.
resolve_run_pair(files, idx, run_a, run_b) ==
    IF run_a = None /\ run_b = None
    THEN last_two(ordered_run_ids(idx.runs))
    ELSE IF run_a # None /\ run_b = None
    THEN one_arg_pair(files, ordered_run_ids(idx.runs),
                      resolve_user_ref(files, idx, run_a[1]))
    ELSE two_arg_pair(resolve_user_ref(files, idx, run_a[1]),
                      resolve_user_ref(files, idx, run_b[1]))

\* the "one arg" block of runstore.resolve_run_pair; a_id is the outcome of
\* run_id_from_ref(prov_dir, run_a), computed after the length check
runstore_one_arg_pair(ordered, run_a, a_id) ==
    IF Len(ordered) < 2 THEN NotEnoughRuns
    ELSE IF ~a_id.ok THEN a_id
    ELSE IF a_id.val = ordered[Len(ordered)]
    THEN Ok(<<ordered[Len(ordered) - 1], ordered[Len(ordered)]>>)
    ELSE Ok(<<run_a, ordered[Len(ordered)]>>)

\* runstore.resolve_run_pair(prov_dir, run_a, run_b)
runstore_resolve_run_pair(files, idx, run_a, run_b) ==
    IF run_a = None /\ run_b = None
    THEN last_two(ordered_run_ids(idx.runs))
    ELSE IF run_a # None /\ run_b = None
    THEN runstore_one_arg_pair(ordered_run_ids(idx.runs), run_a[1],
                               run_id_from_ref(files, idx, run_a[1]))
    ELSE Ok(<<run_a[1], run_b[1]>>)

-----------------------------------------------------------------------------
(* The disambiguator as a pure function: every pair of tokens, every       *)
(* assignment of the caller-supplied predicates to the stripped tokens.    *)

RUN_A == <<"2", "0", "2", "6", "-", "0", "2", "-", "1", "1", "T", "1", "6",
           "-", "0", "8", "-", "3", "6", "Z", "_", "2", "7", "9", "7", "1", "d">>

TagTokens ==
    { <<"#", "2">>, <<"2">>, <<" ", "2">>, <<"#">>,
      <<"b", "a", "s", "e", "l", "i", "n", "e">>, <<"t">>, <<"a", "!">>,
      <<"r", "u", "n", "s", "/", "x">>, <<"t", " ">>, RUN_A }

NotCalled == [kind |-> "notcalled", run_ref |-> <<>>, tag_name |-> <<>>, rule |-> 0]

InitTag ==
    /\ \E a \in TagTokens, b \in TagTokens :
         LET S == {strip(a), strip(b)} IN
         \E e \in SUBSET S, t \in SUBSET S, r \in SUBSET S :
            tagIn = [a |-> a, b |-> b, existing_tags |-> e,
                     tag_ok |-> t, run_ok |-> r]
    /\ tagOut = NotCalled
    /\ doc = <<>> /\ loadOut = <<>> /\ procs = <<>> /\ runDocs = <<>>
    /\ diffIn = <<>>
    /\ diffOut = [exit |-> -1]
    /\ hashIn = <<>> /\ hashOut = <<>>
    /\ index = <<>> /\ fs = <<>> /\ res = <<>>

CallResolveTagArgs ==
    /\ tagOut = NotCalled
    /\ tagOut' = resolve_tag_args(tagIn.a, tagIn.b, tagIn.existing_tags,
                                  tagIn.tag_ok, tagIn.run_ok)
    /\ UNCHANGED <<tagIn, diffVars, hashVars, loadVars, procVars, storeVars, catVars>>

NextTag == CallResolveTagArgs

SpecTag == InitTag /\ [][NextTag]_vars

-----------------------------------------------------------------------------
(* The diff engine as a pure function of two loaded runs and fail_on.      *)

MaxPaths == 1

PathNames ==
    << <<"i", "n", ".", "t", "x", "t">>, <<"n", "e", "w", ".", "t", "x", "t">>,
       <<"a", ".", "t", "x", "t">>, <<"i", "n", ".", "t", "x", "t", ".", "b", "a", "k">>,
       <<"z", ".", "t", "x", "t">> >>

InputPaths == {PathNames[i] : i \in 1..MaxPaths}

OutputPaths == { <<"o", "u", "t", ".", "t", "x", "t">> }

Hashes == {"aaa", "bbb"}

Meta(h) == [has_hash |-> TRUE, hash |-> h]

MetaNoHash == [has_hash |-> FALSE, hash |-> ""]

\* the manifests over a set of paths, every entry with a hash
Manifests(P) == UNION {[S -> {Meta(h) : h \in Hashes}] : S \in SUBSET P}

ParamsNull == [present |-> FALSE, has_hash |-> FALSE, hash |-> ""]

ParamsNoHash == [present |-> TRUE, has_hash |-> FALSE, hash |-> ""]

ParamsHash(h) == [present |-> TRUE, has_hash |-> TRUE, hash |-> h]

Env(v, pf) == [python_version |-> v, platform |-> pf]

Plain(t) == [is_str |-> TRUE, text |-> t, code |-> "", message |-> ""]

Coded(c, m) == [is_str |-> FALSE, text |-> "", code |-> c, message |-> m]

GitMissing ==
    [ present |-> FALSE, is_repo |-> FALSE, commit |-> "None",
      describe |-> "None", branch |-> "None", detached |-> "None",
      dirty |-> "None", untracked |-> "None" ]

GitRepo(commit, describe, branch, detached, dirty, untracked) ==
    [ present |-> TRUE, is_repo |-> TRUE, commit |-> commit,
      describe |-> describe, branch |-> branch, detached |-> detached,
      dirty |-> dirty, untracked |-> untracked ]

GitNotARepo ==
    [ present |-> TRUE, is_repo |-> FALSE, commit |-> "None",
      describe |-> "None", branch |-> "None", detached |-> "None",
      dirty |-> "None", untracked |-> "None" ]

\* the runs on the B side
DiffRunsB ==
    [ inputs      : Manifests(InputPaths),
      outputs     : Manifests(OutputPaths)
                      \cup {[p \in OutputPaths |-> MetaNoHash]},
      params      : {ParamsNull, ParamsNoHash} \cup {ParamsHash(h) : h \in Hashes},
      environment : {Env("3.11", "linux"), Env("3.12", "linux")},
      warnings    : { <<Plain("GIT_DIRTY"), Plain("w2")>>,
                      <<Plain("w2"), Plain("GIT_DIRTY")>>,
                      <<Coded("GIT_DIRTY", ""), Plain("w2")>> },
      git         : { GitMissing,
                      GitRepo("1111111", "v1", "main", "False", "False", "0"),
                      GitRepo("2222222", "v1", "main", "False", "False", "0") } ]

\* the runs on the A side: fewer, but every field takes a value that is
\* absent, equal and different with respect to some B
DiffRunsA ==
    [ inputs      : Manifests(InputPaths),
      outputs     : {f \in Manifests(OutputPaths) : \A p \in DOMAIN f : f[p].hash = "aaa"},
      params      : {ParamsNull, ParamsHash("aaa")},
      environment : {Env("3.11", "linux")},
      warnings    : { <<Plain("GIT_DIRTY"), Plain("w2")>> },
      git         : { GitMissing,
                      GitRepo("1111111", "v1", "main", "False", "False", "0") } ]

FailOn == {"none", "truth", "any"}

DiffNotCalled == [exit |-> -1]

InitDiff ==
    /\ \E rb \in DiffRunsB, f \in FailOn :
         \E ra \in DiffRunsA \cup {rb} :
            diffIn = [a |-> ra, b |-> rb, fail_on |-> f]
    /\ diffOut = DiffNotCalled
    /\ tagIn = <<>>
    /\ tagOut = NotCalled
    /\ doc = <<>> /\ loadOut = <<>> /\ procs = <<>> /\ runDocs = <<>>
    /\ hashIn = <<>> /\ hashOut = <<>>
    /\ index = <<>> /\ fs = <<>> /\ res = <<>>

CallDiffRuns ==
    /\ diffOut = DiffNotCalled
    /\ diffOut' = diff_runs(diffIn.a, diffIn.b, diffIn.fail_on)
    /\ UNCHANGED <<diffIn, tagVars, hashVars, loadVars, procVars, storeVars, catVars>>

NextDiff == CallDiffRuns

SpecDiff == InitDiff /\ [][NextDiff]_vars

-----------------------------------------------------------------------------
(* diff_runs on two runs that differ in their git snapshot only            *)

\* snapshots of a repository: every field takes two values
GitRepos ==
    { GitRepo(c, ds, br, dt, di, u) :
        c \in {"1111111", "2222222"}, ds \in {"v1", "v2"}, br \in {"main", "None"},
        dt \in {"False", "True"}, di \in {"False", "True"}, u \in {"0", "3"} }

\* snapshots taken outside a repository: capture_git_info leaves the other
\* fields None; a hand-edited run.json may hold values there
GitNonRepos ==
    { GitNotARepo, [GitNotARepo EXCEPT !.commit = "1111111", !.dirty = "True"] }

GitSnapshots == GitRepos \cup GitNonRepos

\* a run without inputs, outputs or params
GitBaseRun ==
    [ inputs      |-> <<>>,
      outputs     |-> <<>>,
      params      |-> ParamsNull,
      environment |-> Env("3.11", "linux"),
      warnings    |-> <<Plain("w2")>>,
      git         |-> GitNotARepo ]

InitGit ==
    /\ \E ga \in GitSnapshots, gb \in GitSnapshots :
          diffIn = [a |-> [GitBaseRun EXCEPT !.git = ga],
                    b |-> [GitBaseRun EXCEPT !.git = gb],
                    fail_on |-> "any"]
    /\ diffOut = DiffNotCalled
    /\ tagIn = <<>>
    /\ tagOut = NotCalled
    /\ doc = <<>> /\ loadOut = <<>> /\ procs = <<>> /\ runDocs = <<>>
    /\ hashIn = <<>> /\ hashOut = <<>>
    /\ index = <<>> /\ fs = <<>> /\ res = <<>>

SpecGit == InitGit /\ [][NextDiff]_vars

-----------------------------------------------------------------------------
(* _diff_hashmaps as a pure function: every pair of path -> hash maps over *)
(* the first MaxHashPaths path names.                                      *)

MaxHashPaths == 4

HashPaths == {PathNames[i] : i \in 1..MaxHashPaths}

\* the path -> hash maps _fingerprint_map can return
HashMaps == UNION {[S -> Hashes] : S \in SUBSET HashPaths}

HashNotCalled == <<>>

InitHash ==
    /\ \E a \in HashMaps, b \in HashMaps : hashIn = [a |-> a, b |-> b]
    /\ hashOut = HashNotCalled
    /\ tagIn = <<>>
    /\ tagOut = NotCalled
    /\ doc = <<>> /\ loadOut = <<>> /\ procs = <<>> /\ runDocs = <<>>
    /\ diffIn = <<>>
    /\ diffOut = DiffNotCalled
    /\ index = <<>> /\ fs = <<>> /\ res = <<>>

\* _diff_hashmaps(a, b) and, on the same maps, _diff_hashmaps(b, a)
CallDiffHashmaps ==
    /\ hashOut = HashNotCalled
    /\ hashOut' = [ ab |-> diff_hashmaps(hashIn.a, hashIn.b),
                    ba |-> diff_hashmaps(hashIn.b, hashIn.a) ]
    /\ UNCHANGED <<hashIn, tagVars, diffVars, loadVars, procVars, storeVars, catVars>>

NextHash == CallDiffHashmaps

SpecHash == InitHash /\ [][NextHash]_vars

-----------------------------------------------------------------------------
(* indexdb.py: load_index.  The text of index.json is absent, not JSON, a  *)
(* JSON value that is not an object, or an object whose keys version, runs *)
(* and tags are each missing or hold a value of some JSON type.            *)

\* a JSON value under a key: its type t, and its content when a list or a dict
JField(t, list, dict) == [t |-> t, list |-> list, dict |-> dict]

JMissing == JField("missing", <<>>, <<>>)

JNull == JField("null", <<>>, <<>>)

JStr == JField("str", <<>>, <<>>)

JList(l) == JField("list", l, <<>>)

JDict(d) == JField("dict", <<>>, d)

\* index.json holding an object; version is "missing" or a decimal digit
JObject(version, runs, tags) ==
    [kind |-> "object", version |-> version, runs |-> runs, tags |-> tags]

\* index.json absent, not JSON, or holding a value that is not an object
JOther(kind) ==
    [kind |-> kind, version |-> "missing", runs |-> JMissing, tags |-> JMissing]

\* {"version": 1, "runs": [], "tags": {}}
EmptyDocument == JObject("1", JList(<<>>), JDict(<<>>))

\* data.setdefault(key, default)
setdefault(field, default) == IF field.t = "missing" THEN default ELSE field

\* load_index with the type test on "runs" left out: IndexDB.runs is then
\* list(data.get("runs") or [])
load_index_runs_unchecked(d) ==
    IF d.kind = "absent"
    THEN [out |-> Ok([version |-> 1, runs |-> <<>>, tags |-> <<>>]), doc |-> EmptyDocument]
    ELSE IF d.kind = "invalid_json"
    THEN [out |-> Err("ValueError: invalid JSON"), doc |-> d]
    ELSE IF d.kind # "object"
    THEN [out |-> Err("ValueError: expected an object"), doc |-> d]
    ELSE LET runs == setdefault(d.runs, JList(<<>>))
             tags == setdefault(d.tags, JDict(<<>>))
         IN  IF tags.t # "dict"
             THEN [out |-> Err("ValueError: tags must be a dict"), doc |-> d]
             ELSE [out |-> Ok([version |-> IF d.version = "missing" THEN 1
                                           ELSE int(<<d.version>>),
                               runs |-> runs.list, tags |-> tags.dict]),
                   doc |-> d]

\* load_index(prov_dir): the IndexDB returned or the error raised, and the
\* text of index.json afterwards
load_index(d) ==
    IF d.kind = "absent"
    THEN [out |-> Ok([version |-> 1, runs |-> <<>>, tags |-> <<>>]), doc |-> EmptyDocument]
    ELSE IF d.kind = "invalid_json"
    THEN [out |-> Err("ValueError: invalid JSON"), doc |-> d]
    ELSE IF d.kind # "object"
    THEN [out |-> Err("ValueError: expected an object"), doc |-> d]
    ELSE LET runs == setdefault(d.runs, JList(<<>>))
             tags == setdefault(d.tags, JDict(<<>>))
         IN  IF runs.t # "list"
             THEN [out |-> Err("ValueError: runs must be a list"), doc |-> d]
             ELSE IF tags.t # "dict"
             THEN [out |-> Err("ValueError: tags must be a dict"), doc |-> d]
             ELSE [out |-> Ok([version |-> IF d.version = "missing" THEN 1
                                           ELSE int(<<d.version>>),
                               runs |-> runs.list, tags |-> tags.dict]),
                   doc |-> d]

-----------------------------------------------------------------------------
(* indexdb.py: tags                                                        *)

\* set_tag without the test for an existing tag
set_tag_always_overwrites(idx, tag, run_id, force) ==
    IF ~validate_tag_name(tag) THEN Err("ValueError: grammar")
    ELSE Ok([idx EXCEPT !.tags =
                [t \in DOMAIN idx.tags \cup {tag} |->
                    IF t = tag THEN run_id ELSE idx.tags[t]]])

\* IndexDB.set_tag(tag, run_id, force): the catalog afterwards, or the error
set_tag(idx, tag, run_id, force) ==
    IF ~validate_tag_name(tag) THEN Err("ValueError: grammar")
    ELSE IF tag \in DOMAIN idx.tags /\ ~force THEN Err("ValueError: exists")
    ELSE Ok([idx EXCEPT !.tags =
                [t \in DOMAIN idx.tags \cup {tag} |->
                    IF t = tag THEN run_id ELSE idx.tags[t]]])

\* IndexDB.del_tag(tag)
del_tag(idx, tag) ==
    IF tag \notin DOMAIN idx.tags THEN Err("KeyError")
    ELSE Ok([idx EXCEPT !.tags = [t \in DOMAIN idx.tags \ {tag} |-> idx.tags[t]]])

-----------------------------------------------------------------------------
(* record.py and runid.py                                                  *)

DigitChars == <<"0", "1", "2", "3", "4", "5", "6", "7", "8", "9">>

\* %S and friends: two decimal digits
TwoDigits(n) == <<DigitChars[(n \div 10) + 1], DigitChars[(n % 10) + 1]>>

\* The wall clock reads 2026-02-11 16:08:ss; now is ss.
\* new_run_id(): strftime("%Y-%m-%dT%H-%M-%SZ") + "_" + token_hex(3)
new_run_id(now, suffix) ==
    <<"2", "0", "2", "6", "-", "0", "2", "-", "1", "1", "T", "1", "6", "-", "0", "8", "-">>
        \o TwoDigits(now) \o <<"Z", "_">> \o suffix

\* _utc_timestamp()
utc_timestamp(now) ==
    <<"2", "0", "2", "6", "-", "0", "2", "-", "1", "1", "T", "1", "6", ":", "0", "8", ":">>
        \o TwoDigits(now) \o <<"Z">>

RunDirFiles ==
    { <<"i", "n", "p", "u", "t", "s", ".", "j", "s", "o", "n">>,
      <<"o", "u", "t", "p", "u", "t", "s", ".", "j", "s", "o", "n">>,
      <<"r", "u", "n", ".", "j", "s", "o", "n">>,
      <<"R", "U", "N", ".", "m", "d">> }

\* the directory of a run, as the relative path prov_dir / "runs" / run_id
RunDir(run_id) == prov_dir \o <<runs_dir_name, run_id>>

\* _append_to_index(prov_dir, run_id, name, timestamp)
append_to_index(idx, run_id, nm, timestamp) ==
    [idx EXCEPT !.runs = Append(@, [ is_dict   |-> TRUE,
                                     run_id    |-> run_id,
                                     name      |-> nm,
                                     timestamp |-> timestamp,
                                     path      |-> PathStr(RunDir(run_id)) ])]

-----------------------------------------------------------------------------
(* The catalog, the run store and the resolver as a state machine          *)

MaxRuns == 2

MaxExtraFiles == 1

\* the seconds the wall clock may read when a run is recorded
Times == {1, 2}

Suffixes == { <<"2", "7", "9", "7", "1", "d">>, <<"c", "6", "6", "3", "0", "3">> }

RunNames == {"demo"}

\* the names a user may give a tag: a valid one and an all-digits one
TagNames == { <<"b", "a", "s", "e", "l", "i", "n", "e">>, <<"2">> }

\* names a user may give a file in the working directory
CwdNames == { <<"b", "a", "s", "e", "l", "i", "n", "e">>, <<"2">> }

NestedRel == << <<"o", "u", "t", "p", "u", "t", "s">>,
                <<"r", "e", "s", "u", "l", "t", ".", "t", "x", "t">> >>

NoRes == [op |-> "none", args |-> <<>>, out |-> Ok(<<>>)]

CatalogRunIds == {index.runs[i].run_id : i \in 1..Len(index.runs)}

CwdFiles == {p \in DOMAIN fs : Len(p) = 2 /\ parent(p) = Cwd /\ p[2] \in CwdNames}

NestedFiles == {p \in DOMAIN fs : Len(p) = 6 /\ SubSeq(p, 5, 6) = NestedRel}

\* no command is running
Idle == res = NoRes

\* the file system with more entries
AddFiles(files, new) ==
    [p \in DOMAIN files \cup DOMAIN new |-> IF p \in DOMAIN new THEN new[p] ELSE files[p]]

\* after `prov init`: .prov/, .prov/runs/ and an empty catalog
InitCat ==
    /\ index = [version |-> 1, runs |-> <<>>, tags |-> <<>>]
    /\ fs = [p \in { Root, Cwd, resolve(prov_dir), resolve(prov_dir \o <<runs_dir_name>>),
                     resolve(prov_dir \o <<index_file_name>>) } |->
               IF p = resolve(prov_dir \o <<index_file_name>>) THEN "file" ELSE "dir"]
    /\ res = NoRes

Init ==
    /\ InitCat
    /\ tagIn = <<>>
    /\ tagOut = NotCalled
    /\ doc = <<>> /\ loadOut = <<>> /\ procs = <<>> /\ runDocs = <<>>
    /\ diffIn = <<>>
    /\ diffOut = DiffNotCalled
    /\ hashIn = <<>>
    /\ hashOut = <<>>

\* record_run with run_dir.mkdir(parents=True, exist_ok=True)
RecordRun_exist_ok(now, suffix, nm) ==
    LET run_id  == new_run_id(now, suffix)
        ts      == utc_timestamp(now)
        run_dir == resolve(RunDir(run_id))
    IN  /\ Idle
        /\ Len(index.runs) < MaxRuns
        /\ fs' = AddFiles(fs, [p \in {run_dir} \cup {run_dir \o <<f>> : f \in RunDirFiles}
                                 |-> IF p = run_dir THEN "dir" ELSE "file"])
        /\ index' = append_to_index(index, run_id, nm, ts)
        /\ res' = [op |-> "record", args |-> <<run_id>>, out |-> Ok(run_id)]

\* record_run(name, inputs, outputs, params, prov_dir)
RecordRun(now, suffix, nm) ==
    LET run_id  == new_run_id(now, suffix)
        ts      == utc_timestamp(now)
        run_dir == resolve(RunDir(run_id))
    IN  /\ Idle
        /\ Len(index.runs) < MaxRuns
        /\ IF run_dir \in DOMAIN fs
           THEN /\ res' = [op |-> "record", args |-> <<run_id>>,
                           out |-> Err("FileExistsError")]
                /\ UNCHANGED <<index, fs>>
           ELSE /\ fs' = AddFiles(fs, [p \in {run_dir} \cup {run_dir \o <<f>> : f \in RunDirFiles}
                                         |-> IF p = run_dir THEN "dir" ELSE "file"])
                /\ index' = append_to_index(index, run_id, nm, ts)
                /\ res' = [op |-> "record", args |-> <<run_id>>, out |-> Ok(run_id)]

\* idx = load_index(); idx.set_tag(tag, run_id, force); idx.write()
SetTag(tag, run_id, force) ==
    LET r == set_tag(index, tag, run_id, force) IN
    /\ Idle
    /\ index' = IF r.ok THEN r.val ELSE index
    /\ res' = [op |-> "set_tag", args |-> <<tag, run_id, force>>,
               out |-> IF r.ok THEN Ok(<<>>) ELSE r]
    /\ UNCHANGED fs

\* idx = load_index(); idx.del_tag(tag); idx.write()
DelTag(tag) ==
    LET r == del_tag(index, tag) IN
    /\ Idle
    /\ index' = IF r.ok THEN r.val ELSE index
    /\ res' = [op |-> "del_tag", args |-> <<tag>>,
               out |-> IF r.ok THEN Ok(<<>>) ELSE r]
    /\ UNCHANGED fs

\* the user creates a file in the working directory
TouchCwd(nm) ==
    /\ Idle
    /\ Cardinality(CwdFiles \cup NestedFiles) < MaxExtraFiles
    /\ Cwd \o <<nm>> \notin DOMAIN fs
    /\ fs' = AddFiles(fs, [p \in {Cwd \o <<nm>>} |-> "file"])
    /\ res' = NoRes
    /\ UNCHANGED index

\* the user writes outputs/result.txt inside the directory of a run
TouchNested(run_id) ==
    LET d == resolve(RunDir(run_id)) \o <<NestedRel[1]>> IN
    /\ Idle
    /\ Cardinality(CwdFiles \cup NestedFiles) < MaxExtraFiles
    /\ resolve(RunDir(run_id)) \in DOMAIN fs
    /\ d \notin DOMAIN fs
    /\ fs' = AddFiles(fs, [p \in {d, d \o <<NestedRel[2]>>} |->
                             IF p = d THEN "dir" ELSE "file"])
    /\ res' = NoRes
    /\ UNCHANGED index

\* the tokens a user may pass as a run reference in the current state
FixedRefs ==
    { <<"#", "1">>, <<" ", "#", "2", " ">>, <<"2">>, <<"#", "0">>,
      <<"b", "a", "s", "e", "l", "i", "n", "e">>, <<"n", "o", "p", "e">> }

\* absolute path below the working directory -> the string a user types
RelStr(abs) == PathStr(SubSeq(abs, Len(Cwd) + 1, Len(abs)))

RunRefs ==
    UNION { { id,
              PathStr(RunDir(id)),
              PathStr(RunDir(id) \o <<<<"r", "u", "n", ".", "j", "s", "o", "n">>>>) } :
            id \in CatalogRunIds }

RefTokens == FixedRefs \cup RunRefs \cup {RelStr(p) : p \in NestedFiles}

CallResolveUserRef(ref) ==
    /\ Idle
    /\ res' = [op |-> "resolve_user_ref", args |-> <<ref>>,
               out |-> resolve_user_ref(fs, index, ref)]
    /\ UNCHANGED <<index, fs>>

CallResolveRef(ref) ==
    /\ Idle
    /\ res' = [op |-> "resolve_ref", args |-> <<ref>>,
               out |-> resolve_ref(fs, index, ref)]
    /\ UNCHANGED <<index, fs>>

\* resolve.resolve_run_pair with zero, one or two tokens
CallResolveRunPair(run_a, run_b) ==
    /\ Idle
    /\ res' = [op |-> "resolve_run_pair", args |-> <<run_a, run_b>>,
               out |-> resolve_run_pair(fs, index, run_a, run_b)]
    /\ UNCHANGED <<index, fs>>

\* runstore.resolve_run_pair with zero, one or two tokens
CallRunstoreResolveRunPair(run_a, run_b) ==
    /\ Idle
    /\ res' = [op |-> "runstore.resolve_run_pair", args |-> <<run_a, run_b>>,
               out |-> runstore_resolve_run_pair(fs, index, run_a, run_b)]
    /\ UNCHANGED <<index, fs>>

\* the command has printed its outcome and its process exits
Exit ==
    /\ ~Idle
    /\ res' = NoRes
    /\ UNCHANGED <<index, fs>>

\* the (run_a, run_b) argument pairs: none, one token, or two tokens
PairArgs ==
    {<<None, None>>}
      \cup {<<Some(a), None>> : a \in RefTokens}
      \cup {<<Some(a), Some(b)>> : a \in {<<"#", "1">>, <<"#", "0">>},
                                   b \in {<<"n", "o", "p", "e">>, <<" ", "#", "2", " ">>}}

Next ==
    \/ \E now \in Times, suffix \in Suffixes, nm \in RunNames :
          RecordRun(now, suffix, nm) /\ UNCHANGED <<tagVars, diffVars, hashVars, loadVars, procVars, storeVars>>
    \/ \E tag \in TagNames, id \in CatalogRunIds, force \in BOOLEAN :
          SetTag(tag, id, force) /\ UNCHANGED <<tagVars, diffVars, hashVars, loadVars, procVars, storeVars>>
    \/ \E tag \in TagNames : DelTag(tag) /\ UNCHANGED <<tagVars, diffVars, hashVars, loadVars, procVars, storeVars>>
    \/ \E nm \in CwdNames : TouchCwd(nm) /\ UNCHANGED <<tagVars, diffVars, hashVars, loadVars, procVars, storeVars>>
    \/ \E id \in CatalogRunIds : TouchNested(id) /\ UNCHANGED <<tagVars, diffVars, hashVars, loadVars, procVars, storeVars>>
    \/ \E ref \in RefTokens : CallResolveUserRef(ref) /\ UNCHANGED <<tagVars, diffVars, hashVars, loadVars, procVars, storeVars>>
    \/ \E ref \in RefTokens : CallResolveRef(ref) /\ UNCHANGED <<tagVars, diffVars, hashVars, loadVars, procVars, storeVars>>
    \/ \E args \in PairArgs :
          CallResolveRunPair(args[1], args[2]) /\ UNCHANGED <<tagVars, diffVars, hashVars, loadVars, procVars, storeVars>>
    \/ \E args \in PairArgs :
          CallRunstoreResolveRunPair(args[1], args[2]) /\ UNCHANGED <<tagVars, diffVars, hashVars, loadVars, procVars, storeVars>>
    \/ Exit /\ UNCHANGED <<tagVars, diffVars, hashVars, loadVars, procVars, storeVars>>

Spec == Init /\ [][Next]_vars

-----------------------------------------------------------------------------
(* The ordering of the catalog as a pure function: index.json holds any    *)
(* list of at most MaxEntries entries, well-formed or not.                 *)

MaxEntries == 3

\* a catalog entry that is a JSON object; an absent key is the empty string
Entry(run_id, timestamp) ==
    [ is_dict |-> TRUE, run_id |-> run_id, name |-> "demo",
      timestamp |-> timestamp, path |-> PathStr(RunDir(run_id)) ]

\* a catalog entry that is not a JSON object
NotAnObject ==
    [is_dict |-> FALSE, run_id |-> <<>>, name |-> "", timestamp |-> <<>>, path |-> <<>>]

SUFFIX_1 == <<"2", "7", "9", "7", "1", "d">>

SUFFIX_2 == <<"c", "6", "6", "3", "0", "3">>

\* recorded in second 1, suffix 27971d
EntryFirst == Entry(new_run_id(1, SUFFIX_1), utc_timestamp(1))

\* recorded in the same second, suffix c66303
EntryTie == Entry(new_run_id(1, SUFFIX_2), utc_timestamp(1))

\* recorded in second 2
EntryLater == Entry(new_run_id(2, SUFFIX_1), utc_timestamp(2))

\* a hand-written entry: run_id "z", second 0, the timestamp padded with blanks
EntryPadded == Entry(<<"z">>, <<" ">> \o utc_timestamp(0) \o <<" ">>)

EntryNoRunId == Entry(<<>>, utc_timestamp(1))

EntryNoTimestamp == Entry(<<"x">>, <<>>)

\* timestamp "soon"
EntryGarbageTs == Entry(<<"b", "a", "d">>, <<"s", "o", "o", "n">>)

\* timestamp 2026-13-11T16:08:01Z: month 13
EntryMonth13 ==
    Entry(<<"m", "1", "3">>,
          <<"2", "0", "2", "6", "-", "1", "3", "-", "1", "1", "T", "1", "6", ":", "0", "8", ":", "0", "1", "Z">>)

CatalogEntries ==
    { EntryFirst, EntryTie, EntryLater, EntryPadded, NotAnObject, EntryNoRunId,
      EntryNoTimestamp, EntryGarbageTs, EntryMonth13 }

\* the arguments resolve_ordinal is called with
OrdinalArgs == (0 - 2)..(MaxEntries + 1)

InitOrder ==
    /\ \E n \in 0..MaxEntries : \E runs \in [1..n -> CatalogEntries] :
          index = [version |-> 1, runs |-> runs, tags |-> <<>>]
    /\ fs = <<>>
    /\ res = NoRes
    /\ tagIn = <<>>
    /\ tagOut = NotCalled
    /\ doc = <<>> /\ loadOut = <<>> /\ procs = <<>> /\ runDocs = <<>>
    /\ diffIn = <<>>
    /\ diffOut = DiffNotCalled
    /\ hashIn = <<>>
    /\ hashOut = <<>>

\* idx = load_index(prov_dir); idx.ordered_run_ids()
CallOrderedRunIds ==
    /\ Idle
    /\ res' = [op |-> "ordered_run_ids", args |-> <<>>,
               out |-> Ok(ordered_run_ids(index.runs))]
    /\ UNCHANGED <<index, fs>>

\* idx = load_index(prov_dir); idx.resolve_ordinal(n)
CallResolveOrdinal(n) ==
    /\ Idle
    /\ res' = [op |-> "resolve_ordinal", args |-> <<n>>,
               out |-> resolve_ordinal(index, n)]
    /\ UNCHANGED <<index, fs>>

NextOrder ==
    \/ CallOrderedRunIds /\ UNCHANGED <<tagVars, diffVars, hashVars, loadVars, procVars, storeVars>>
    \/ \E n \in OrdinalArgs : CallResolveOrdinal(n) /\ UNCHANGED <<tagVars, diffVars, hashVars, loadVars, procVars, storeVars>>
    \/ Exit /\ UNCHANGED <<tagVars, diffVars, hashVars, loadVars, procVars, storeVars>>

SpecOrder == InitOrder /\ [][NextOrder]_vars

-----------------------------------------------------------------------------
(* runstore.py load_run and the cli.py commands show, diff and tag, as far *)
(* as they decide which run a reference names                              *)

RUN_JSON == <<"r", "u", "n", ".", "j", "s", "o", "n">>

\* the run a run directory holds: run.json, written by record_run, carries
\* the run_id the directory is named after
run_of_dir(files, run_dir) ==
    IF ~run_dir.ok THEN run_dir
    ELSE IF (run_dir.val \o <<RUN_JSON>>) \notin DOMAIN files THEN Err("FileNotFoundError")
    ELSE Ok(name(run_dir.val))

\* runstore.load_run(prov_dir, run_ref): the run_id of the Run returned
load_run(files, idx, run_ref) ==
    run_of_dir(files, run_dir_from_ref(files, idx, run_ref))

\* the tail of cli._resolve_to_run_id; resolved is the outcome of
\* resolve_user_ref(prov_dir, ref)
run_id_of_resolved(files, resolved) ==
    IF ~resolved.ok THEN Err("BadParameter")
    ELSE LET p == Path(resolved.val) IN
         IF exists(files, p)
         THEN Ok(IF is_file(files, p) THEN name(parent(p)) ELSE name(p))
         ELSE resolved

\* cli._resolve_to_run_id(prov_dir, ref)
resolve_to_run_id(files, idx, ref) ==
    run_id_of_resolved(files, resolve_user_ref(files, idx, ref))

\* the --format values given
Formats == {"text", "json"}

\* what a command has done: the run or runs it worked on, the form of what
\* it printed, and its exit status
Shown(run, printed) == Ok([run |-> run, printed |-> printed, exit |-> 0])

\* cli.show with a reference, in a catalog that has runs; run_id is the
\* outcome of _resolve_to_run_id(prov_dir, run_ref).  abs_paths only
\* changes how _fmt_path prints a path in text output.
\* run is the outcome of load_run(prov_dir, run_id)
show_loaded(run, fmt) ==
    IF run.ok THEN Shown(run.val, fmt) ELSE Err("BadParameter")

show_run(files, idx, run_id, fmt, abs_paths) ==
    IF ~run_id.ok THEN run_id
    ELSE show_loaded(load_run(files, idx, run_id.val), fmt)

\* cli.show(ref, format, abs_paths)
cli_show(files, idx, ref, format, abs_paths) ==
    IF format \notin {"text", "json"} THEN Err("BadParameter")
    ELSE show_run(files, idx, resolve_to_run_id(files, idx, ref), format, abs_paths)

\* diff_runs(prov_dir, a, b, abs_paths, out_format, fail_on = "none"): the
\* two runs loaded and the form of the output; abs_paths only changes how
\* _fmt_path prints a path in text output
diff_loaded(ra, rb, fmt, abs_paths) ==
    IF ~ra.ok \/ ~rb.ok THEN Err("BadParameter") ELSE Shown(<<ra.val, rb.val>>, fmt)

\* cli.diff after resolve_run_pair
diff_pair(files, idx, pair, fmt, abs_paths) ==
    IF ~pair.ok THEN Err("BadParameter")
    ELSE diff_loaded(load_run(files, idx, pair.val[1]), load_run(files, idx, pair.val[2]),
                     fmt, abs_paths)

\* cli.diff(run_a, run_b, format, abs_paths) with --fail-on none
cli_diff(files, idx, run_a, run_b, format, abs_paths) ==
    IF format \notin {"text", "json"} THEN Err("BadParameter")
    ELSE diff_pair(files, idx, resolve_run_pair(files, idx, Some(run_a), Some(run_b)),
                   format, abs_paths)

\* _run_ok(x) of cli.tag; rid is the outcome of _resolve_to_run_id(prov_dir, x)
run_ok_of(files, rid) ==
    rid.ok /\ exists(files, prov_dir \o <<runs_dir_name>> \o Path(rid.val))

\* the end of cli.tag; r is the outcome of idx.set_tag(tag_name, rid, force)
tag_set(idx, rid, r) ==
    IF r.ok THEN [idx |-> r.val, out |-> Ok(rid.val)]
    ELSE [idx |-> idx,
          out |-> IF r.err = "ValueError: exists"
                  THEN Err("BadParameter: tag exists") ELSE Err("BadParameter")]

\* cli.tag after resolve_tag_args has returned (run_ref, tag_name); rid is
\* the outcome of _resolve_to_run_id(prov_dir, run_ref).  The catalog
\* afterwards, and the run tagged or the error.
tag_resolved(files, idx, rid, tag_name, force) ==
    IF ~rid.ok THEN [idx |-> idx, out |-> rid]
    ELSE IF ~exists(files, prov_dir \o <<runs_dir_name>> \o Path(rid.val))
    THEN [idx |-> idx, out |-> Err("BadParameter")]
    ELSE tag_set(idx, rid, set_tag(idx, tag_name, rid.val, force))

\* cli.tag from the outcome d of resolve_tag_args
tag_decided(files, idx, d, force) ==
    IF d.kind # "ok" THEN [idx |-> idx, out |-> Err("BadParameter")]
    ELSE tag_resolved(files, idx, resolve_to_run_id(files, idx, d.run_ref),
                      d.tag_name, force)

\* cli.tag(a, b, force)
cli_tag(files, idx, a, b, force) ==
    LET S == {strip(a), strip(b)} IN
    tag_decided(files, idx,
                resolve_tag_args(a, b, DOMAIN idx.tags,
                                 {x \in S : validate_tag_name(x)},
                                 {x \in S : run_ok_of(files, resolve_to_run_id(files, idx, x))}),
                force)

-----------------------------------------------------------------------------
(* References that are paths into the run store: two recorded runs, and    *)
(* below each of them nothing more, outputs/result.txt, or                  *)
(* outputs/deep/file.txt.                                                   *)

OUTPUTS == <<"o", "u", "t", "p", "u", "t", "s">>

RESULT_TXT == <<"r", "e", "s", "u", "l", "t", ".", "t", "x", "t">>

DEEP == <<"d", "e", "e", "p">>

FILE_TXT == <<"f", "i", "l", "e", ".", "t", "x", "t">>

Layouts == {"plain", "result", "deep"}

\* what a layout adds below a run directory: relative path -> kind
LayoutFiles(layout) ==
    CASE layout = "plain"  -> <<>>
      [] layout = "result" -> [p \in {<<OUTPUTS>>, <<OUTPUTS, RESULT_TXT>>} |->
                                 IF p = <<OUTPUTS>> THEN "dir" ELSE "file"]
      [] layout = "deep"   -> [p \in {<<OUTPUTS>>, <<OUTPUTS, DEEP>>, <<OUTPUTS, DEEP, FILE_TXT>>} |->
                                 IF p = <<OUTPUTS, DEEP, FILE_TXT>> THEN "file" ELSE "dir"]

\* the directory of a recorded run with the files record_run writes and a layout
RunTree(run_id, layout) ==
    LET d == resolve(RunDir(run_id)) IN
    [p \in {d} \cup {d \o <<f>> : f \in RunDirFiles}
            \cup {d \o q : q \in DOMAIN LayoutFiles(layout)} |->
        IF p = d THEN "dir"
        ELSE IF Len(p) = Len(d) + 1 /\ p[Len(p)] \in RunDirFiles THEN "file"
        ELSE LayoutFiles(layout)[SubSeq(p, Len(d) + 1, Len(p))]]

StoredRuns == {EntryFirst.run_id, EntryLater.run_id}

\* the paths inside a run directory a user may type, relative to the run directory
RelInside ==
    { <<>>, <<RUN_JSON>>, <<OUTPUTS>>, <<OUTPUTS, RESULT_TXT>>,
      <<OUTPUTS, DEEP>>, <<OUTPUTS, DEEP, FILE_TXT>> }

\* the existing paths inside the run store, as the strings a user types
PathRefs ==
    {PathStr(RunDir(id) \o rel) : id \in StoredRuns, rel \in RelInside}
       \cap {RelStr(p) : p \in DOMAIN fs}

\* the references given to prov show and prov diff: paths, ordinals, run ids
ShowRefs == PathRefs \cup { <<"#", "1">>, <<"#", "9">> } \cup StoredRuns

\* the second references given to prov diff: the later run by its id, by
\* its directory, and by a directory below it
SecondRefs ==
    { EntryLater.run_id, PathStr(RunDir(EntryLater.run_id)),
      PathStr(RunDir(EntryLater.run_id) \o <<OUTPUTS>>) } \cap ShowRefs

InitPath ==
    /\ index = [version |-> 1, runs |-> <<EntryFirst, EntryLater>>, tags |-> <<>>]
    /\ \E l1 \in Layouts, l2 \in Layouts :
          fs = AddFiles(AddFiles([p \in { Root, Cwd, resolve(prov_dir),
                                          resolve(prov_dir \o <<runs_dir_name>>),
                                          resolve(prov_dir \o <<index_file_name>>) } |->
                                    IF p = resolve(prov_dir \o <<index_file_name>>)
                                    THEN "file" ELSE "dir"],
                                 RunTree(EntryFirst.run_id, l1)),
                        RunTree(EntryLater.run_id, l2))
    /\ res = NoRes
    /\ tagIn = <<>>
    /\ tagOut = NotCalled
    /\ doc = <<>> /\ loadOut = <<>> /\ procs = <<>> /\ runDocs = <<>>
    /\ diffIn = <<>>
    /\ diffOut = DiffNotCalled
    /\ hashIn = <<>> /\ hashOut = <<>>

CallRunIdFromRef(ref) ==
    /\ Idle
    /\ res' = [op |-> "run_id_from_ref", args |-> <<ref>>,
               out |-> run_id_from_ref(fs, index, ref)]
    /\ UNCHANGED <<index, fs>>

CallLoadRun(ref) ==
    /\ Idle
    /\ res' = [op |-> "load_run", args |-> <<ref>>, out |-> load_run(fs, index, ref)]
    /\ UNCHANGED <<index, fs>>

\* prov show REF --format FORMAT [--abs-paths]
CliShow(ref, format, abs_paths) ==
    /\ Idle
    /\ res' = [op |-> "cli.show", args |-> <<ref, format, abs_paths>>,
               out |-> cli_show(fs, index, ref, format, abs_paths)]
    /\ UNCHANGED <<index, fs>>

\* prov diff RUN_A RUN_B --format FORMAT [--abs-paths]
CliDiff(run_a, run_b, format, abs_paths) ==
    /\ Idle
    /\ res' = [op |-> "cli.diff", args |-> <<run_a, run_b, format, abs_paths>>,
               out |-> cli_diff(fs, index, run_a, run_b, format, abs_paths)]
    /\ UNCHANGED <<index, fs>>

\* prov tag A B [--force]
CliTagged(a, b, force, r) ==
    /\ Idle
    /\ index' = r.idx
    /\ res' = [op |-> "cli.tag", args |-> <<a, b, force>>, out |-> r.out]
    /\ UNCHANGED fs

CliTag(a, b, force) == CliTagged(a, b, force, cli_tag(fs, index, a, b, force))

\* the tag name given to prov tag
PathTagNames == { <<"t">> }

NextPath ==
    \/ \E ref \in PathRefs : CallRunIdFromRef(ref) /\ UNCHANGED <<tagVars, diffVars, hashVars, loadVars, procVars, storeVars>>
    \/ \E ref \in PathRefs : CallLoadRun(ref) /\ UNCHANGED <<tagVars, diffVars, hashVars, loadVars, procVars, storeVars>>
    \/ \E ref \in ShowRefs, format \in Formats, abs_paths \in BOOLEAN :
          CliShow(ref, format, abs_paths) /\ UNCHANGED <<tagVars, diffVars, hashVars, loadVars, procVars, storeVars>>
    \/ \E a \in ShowRefs, b \in SecondRefs, format \in Formats, abs_paths \in BOOLEAN :
          CliDiff(a, b, format, abs_paths) /\ UNCHANGED <<tagVars, diffVars, hashVars, loadVars, procVars, storeVars>>
    \/ \E a \in PathRefs, b \in PathTagNames, force \in BOOLEAN :
          CliTag(a, b, force) /\ UNCHANGED <<tagVars, diffVars, hashVars, loadVars, procVars, storeVars>>
    \/ Exit /\ UNCHANGED <<tagVars, diffVars, hashVars, loadVars, procVars, storeVars>>

SpecPath == InitPath /\ [][NextPath]_vars

-----------------------------------------------------------------------------
(* Two commands at a time.  Each process runs one command, prov tag or     *)
(* prov record, in the steps at which the command reads or writes the      *)
(* file system: tag loads index.json, then writes it; record makes the run *)
(* directory, writes the run documents, writes RUN.md, loads index.json,   *)
(* then writes it.  There is no lock.                                      *)

Procs == {1, 2}

\* the tag name each process gives
ProcTag(p) == IF p = 1 THEN <<"b", "a", "s", "e", "l", "i", "n", "e">> ELSE <<"t">>

\* a write that keeps what the file holds and the writer does not
write_merging(persisted, data) ==
    [ version |-> data.version,
      runs    |-> data.runs \o SelectSeq(persisted.runs, LAMBDA e : e \notin Range(data.runs)),
      tags    |-> [t \in DOMAIN persisted.tags \cup DOMAIN data.tags |->
                     IF t \in DOMAIN data.tags THEN data.tags[t] ELSE persisted.tags[t]] ]

\* IndexDB.write(): index.json afterwards, given what it held and self.data
write(persisted, data) == data

\* record_run with _append_to_index called right after the directory is made
rec_after_index_first(pc) ==
    CASE pc = "rec_mkdir"   -> "rec_load"
      [] pc = "rec_load"    -> "rec_append"
      [] pc = "rec_append"  -> "rec_docs"
      [] pc = "rec_docs"    -> "rec_summary"
      [] pc = "rec_summary" -> "done"

\* the order of the steps of record_run: the step that follows pc
rec_after(pc) ==
    CASE pc = "rec_mkdir"   -> "rec_docs"
      [] pc = "rec_docs"    -> "rec_summary"
      [] pc = "rec_summary" -> "rec_load"
      [] pc = "rec_load"    -> "rec_append"
      [] pc = "rec_append"  -> "done"

\* a process: pc its position, run_id and ts of the run it records, local
\* the catalog it loaded, out its outcome; saw (the processes that had
\* written when it loaded) and wrote (its place among the writes, 0 for
\* none) are history
NewProc ==
    [ pc |-> "start", cmd |-> "none", run_id |-> <<>>, ts |-> <<>>,
      local |-> [version |-> 1, runs |-> <<>>, tags |-> <<>>],
      saw |-> {}, wrote |-> 0, out |-> Ok(<<>>) ]

Writers == {p \in Procs : procs[p].wrote > 0}

InitConc ==
    /\ index = [version |-> 1, runs |-> <<EntryFirst>>, tags |-> <<>>]
    /\ fs = AddFiles([p \in { Root, Cwd, resolve(prov_dir),
                               resolve(prov_dir \o <<runs_dir_name>>),
                               resolve(prov_dir \o <<index_file_name>>) } |->
                         IF p = resolve(prov_dir \o <<index_file_name>>)
                         THEN "file" ELSE "dir"],
                     RunTree(EntryFirst.run_id, "plain"))
    /\ res = NoRes
    /\ procs = [p \in Procs |-> NewProc]
    /\ tagIn = <<>>
    /\ tagOut = NotCalled
    /\ doc = <<>> /\ loadOut = <<>> /\ runDocs = <<>>
    /\ diffIn = <<>>
    /\ diffOut = DiffNotCalled
    /\ hashIn = <<>> /\ hashOut = <<>>

\* prov tag RUN_ID NAME: idx = _load_index_or_badparam(prov_dir)
TagLoad(p) ==
    /\ procs[p].pc = "start"
    /\ procs' = [procs EXCEPT ![p] = [@ EXCEPT !.pc = "tag_loaded", !.cmd = "tag",
                                                !.local = index, !.saw = Writers]]
    /\ UNCHANGED <<index, fs>>

\* the rest of prov tag: resolve, idx.set_tag(...), idx.write()
TagWrite(p) ==
    LET r == cli_tag(fs, procs[p].local, EntryFirst.run_id, ProcTag(p), FALSE) IN
    /\ procs[p].pc = "tag_loaded"
    /\ IF r.out.ok
       THEN /\ index' = write(index, r.idx)
            /\ procs' = [procs EXCEPT ![p] = [@ EXCEPT !.pc = "done", !.out = r.out,
                                                       !.wrote = Cardinality(Writers) + 1]]
       ELSE /\ index' = index
            /\ procs' = [procs EXCEPT ![p] = [@ EXCEPT !.pc = "done", !.out = r.out]]
    /\ UNCHANGED fs

\* prov record: run_id = new_run_id(); ts = _utc_timestamp(); run_dir.mkdir(exist_ok=False)
RecMkdir(p, now, suffix) ==
    LET run_id  == new_run_id(now, suffix)
        run_dir == resolve(RunDir(run_id))
    IN  /\ procs[p].pc = "start"
        /\ IF run_dir \in DOMAIN fs
           THEN /\ procs' = [procs EXCEPT ![p] = [@ EXCEPT !.pc = "done", !.cmd = "record",
                                                           !.run_id = run_id,
                                                           !.out = Err("FileExistsError")]]
                /\ fs' = fs
           ELSE /\ procs' = [procs EXCEPT ![p] = [@ EXCEPT !.pc = rec_after("rec_mkdir"),
                                                           !.cmd = "record",
                                                           !.run_id = run_id,
                                                           !.ts = utc_timestamp(now)]]
                /\ fs' = AddFiles(fs, [q \in {run_dir} |-> "dir"])
        /\ UNCHANGED index

\* manifest_paths finds an input or output missing, or the params file is
\* missing: FileNotFoundError before any document is written
RecFail(p) ==
    /\ procs[p].pc = "rec_docs"
    /\ procs' = [procs EXCEPT ![p] = [@ EXCEPT !.pc = "done", !.out = Err("FileNotFoundError")]]
    /\ UNCHANGED <<index, fs>>

\* inputs.json, outputs.json and run.json are written
RecWriteDocs(p) ==
    LET run_dir == resolve(RunDir(procs[p].run_id)) IN
    /\ procs[p].pc = "rec_docs"
    /\ fs' = AddFiles(fs, [q \in {run_dir \o <<f>> : f \in RunDirFiles \ {<<"R", "U", "N", ".", "m", "d">>}}
                            |-> "file"])
    /\ procs' = [procs EXCEPT ![p] = [@ EXCEPT !.pc = rec_after("rec_docs")]]
    /\ UNCHANGED index

\* RUN.md is written
RecWriteSummary(p) ==
    LET run_dir == resolve(RunDir(procs[p].run_id)) IN
    /\ procs[p].pc = "rec_summary"
    /\ fs' = AddFiles(fs, [q \in {run_dir \o << <<"R", "U", "N", ".", "m", "d">> >>} |-> "file"])
    /\ procs' = [procs EXCEPT ![p] = [@ EXCEPT !.pc = rec_after("rec_summary")]]
    /\ UNCHANGED index

\* _append_to_index: idx = load_index(prov_dir)
RecLoad(p) ==
    /\ procs[p].pc = "rec_load"
    /\ procs' = [procs EXCEPT ![p] = [@ EXCEPT !.pc = rec_after("rec_load"),
                                                !.local = index, !.saw = Writers]]
    /\ UNCHANGED <<index, fs>>

\* _append_to_index: idx.data["runs"].append(...); idx.write()
RecAppend(p) ==
    /\ procs[p].pc = "rec_append"
    /\ index' = write(index, append_to_index(procs[p].local, procs[p].run_id, "demo", procs[p].ts))
    /\ procs' = [procs EXCEPT ![p] =
                   [@ EXCEPT !.pc = rec_after("rec_append"),
                             !.out = IF rec_after("rec_append") = "done"
                                     THEN Ok(procs[p].run_id) ELSE @,
                             !.wrote = Cardinality(Writers) + 1]]
    /\ UNCHANGED fs

NextConc ==
    \/ \E p \in Procs : TagLoad(p) /\ UNCHANGED <<tagVars, diffVars, hashVars, loadVars, storeVars, res>>
    \/ \E p \in Procs : TagWrite(p) /\ UNCHANGED <<tagVars, diffVars, hashVars, loadVars, storeVars, res>>
    \/ \E p \in Procs, now \in Times, suffix \in Suffixes :
          RecMkdir(p, now, suffix) /\ UNCHANGED <<tagVars, diffVars, hashVars, loadVars, storeVars, res>>
    \/ \E p \in Procs : RecFail(p) /\ UNCHANGED <<tagVars, diffVars, hashVars, loadVars, storeVars, res>>
    \/ \E p \in Procs : RecWriteDocs(p) /\ UNCHANGED <<tagVars, diffVars, hashVars, loadVars, storeVars, res>>
    \/ \E p \in Procs : RecWriteSummary(p) /\ UNCHANGED <<tagVars, diffVars, hashVars, loadVars, storeVars, res>>
    \/ \E p \in Procs : RecLoad(p) /\ UNCHANGED <<tagVars, diffVars, hashVars, loadVars, storeVars, res>>
    \/ \E p \in Procs : RecAppend(p) /\ UNCHANGED <<tagVars, diffVars, hashVars, loadVars, storeVars, res>>

SpecConc == InitConc /\ [][NextConc]_vars

-----------------------------------------------------------------------------
(* load_index on every shape of index.json                                 *)

\* the values found under "runs"
RunsFields ==
    { JMissing, JNull, JStr, JList(<<>>), JList(<<EntryFirst>>),
      JDict(<<>>), JDict([t \in {<<"t">>} |-> EntryFirst.run_id]) }

\* the values found under "tags"
TagsFields ==
    { JMissing, JNull, JStr, JDict(<<>>), JDict([t \in {<<"t">>} |-> EntryFirst.run_id]),
      JList(<<>>), JList(<<EntryFirst>>) }

Documents ==
    {JOther(k) : k \in {"absent", "invalid_json", "list", "str", "int", "null"}}
      \cup {JObject(v, r, t) : v \in {"missing", "1", "2"}, r \in RunsFields, t \in TagsFields}

LoadNotCalled == [called |-> FALSE, out |-> Ok(<<>>)]

InitLoad ==
    /\ doc \in Documents
    /\ loadOut = LoadNotCalled
    /\ procs = <<>> /\ runDocs = <<>>
    /\ tagIn = <<>>
    /\ tagOut = NotCalled
    /\ diffIn = <<>>
    /\ diffOut = DiffNotCalled
    /\ hashIn = <<>> /\ hashOut = <<>>
    /\ index = <<>> /\ fs = <<>> /\ res = <<>>

\* one command calls load_index(prov_dir)
CallLoadIndex ==
    LET r == load_index(doc) IN
    /\ doc' = r.doc
    /\ loadOut' = [called |-> TRUE, out |-> r.out]
    /\ UNCHANGED <<tagVars, diffVars, hashVars, procVars, storeVars, catVars>>

NextLoad == CallLoadIndex

SpecLoad == InitLoad /\ [][NextLoad]_vars

-----------------------------------------------------------------------------
(* Tagging from an empty catalog: set_tag and del_tag with names inside    *)
(* and outside the grammar.                                                *)

\* names validate_tag_name accepts according to its docstring
NamesInGrammar ==
    { <<"b", "a", "s", "e", "l", "i", "n", "e">>, <<"t">>,
      <<"a", ".", "b", "-", "c", "_", "9">> }

\* "123", "#3", " a", "a ", "a b", "a!" and the empty name
NamesOutsideGrammar ==
    { <<"1", "2", "3">>, <<"#", "3">>, <<" ", "a">>, <<"a", " ">>,
      <<"a", " ", "b">>, <<"a", "!">>, <<>> }

TagArgs == NamesInGrammar \cup NamesOutsideGrammar

\* the run ids a tag is pointed at
TagTargets == {EntryFirst.run_id, EntryLater.run_id}

InitTags ==
    /\ InitCat
    /\ tagIn = <<>>
    /\ tagOut = NotCalled
    /\ doc = <<>> /\ loadOut = <<>> /\ procs = <<>> /\ runDocs = <<>>
    /\ diffIn = <<>>
    /\ diffOut = DiffNotCalled
    /\ hashIn = <<>>
    /\ hashOut = <<>>

NextTags ==
    \/ \E tag \in TagArgs, run_id \in TagTargets, force \in BOOLEAN :
          SetTag(tag, run_id, force) /\ UNCHANGED <<tagVars, diffVars, hashVars, loadVars, procVars, storeVars>>
    \/ \E tag \in TagArgs : DelTag(tag) /\ UNCHANGED <<tagVars, diffVars, hashVars, loadVars, procVars, storeVars>>
    \/ Exit /\ UNCHANGED <<tagVars, diffVars, hashVars, loadVars, procVars, storeVars>>

SpecTags == InitTags /\ [][NextTags]_vars

-----------------------------------------------------------------------------
(* Properties of the disambiguator.  The token classes are stated on the   *)
(* concrete tokens, independently of the operators above.                  *)

OrdinalTokens == { <<"#", "2">>, <<"2">>, <<" ", "2">> }

ExplicitTokens == OrdinalTokens \cup { RUN_A, <<"r", "u", "n", "s", "/", "x">> }

\* the token as the caller-supplied predicates see it
Stripped(x) ==
    CASE x = <<" ", "2">> -> <<"2">>
      [] x = <<"t", " ">> -> <<"t">>
      [] OTHER -> x

TagCalled == tagOut # NotCalled

IsOrd(x) == x \in OrdinalTokens

IsExplicit(x) == x \in ExplicitTokens

IsExisting(x) == Stripped(x) \in tagIn.existing_tags

IsTagOk(x) == Stripped(x) \in tagIn.tag_ok

IsRunOk(x) == Stripped(x) \in tagIn.run_ok

Returns(run, tag) ==
    /\ tagOut.kind = "ok"
    /\ tagOut.run_ref = Stripped(run)
    /\ tagOut.tag_name = Stripped(tag)

R1Applies == IsOrd(tagIn.a) # IsOrd(tagIn.b)

R2Applies ==
    \/ IsExisting(tagIn.a) /\ IsRunOk(tagIn.b)
    \/ IsExisting(tagIn.b) /\ IsRunOk(tagIn.a)

R3Case(X, Y) == IsExisting(X) /\ IsTagOk(Y) /\ ~IsRunOk(Y) /\ ~IsExplicit(Y)

R3Applies == R3Case(tagIn.a, tagIn.b) \/ R3Case(tagIn.b, tagIn.a)

\* what rule 2 prescribes when X is the existing tag and Y the run side
R2Outcome(X, Y) ==
    IF IsExplicit(Y) THEN Returns(Y, X) ELSE tagOut.kind = "TagAmbiguity"

C4_OrdinalsWin ==
    TagCalled =>
        /\ (IsOrd(tagIn.a) /\ ~IsOrd(tagIn.b)) => Returns(tagIn.a, tagIn.b)
        /\ (IsOrd(tagIn.b) /\ ~IsOrd(tagIn.a)) => Returns(tagIn.b, tagIn.a)

\* C4 witness: ("baseline", "2") with "baseline" an existing, run-resolvable
\* tag and "2" neither run-resolvable nor tag-valid still gives (2, baseline).
C4_Witness ==
    /\ TagCalled
    /\ tagIn.a = <<"b", "a", "s", "e", "l", "i", "n", "e">>
    /\ tagIn.b = <<"2">>
    /\ IsExisting(tagIn.a) /\ IsRunOk(tagIn.a)
    /\ ~IsRunOk(tagIn.b) /\ ~IsTagOk(tagIn.b)
    /\ Returns(tagIn.b, tagIn.a)

\* C5: when rules 1-3 do not apply and exactly one token is run-resolvable,
\* the result is (run = the run-resolvable token, tag = the other), whatever
\* the position of the run-resolvable token and whether or not the other
\* token is tag-grammar-valid.
C5_ExactlyOneRun ==
    (TagCalled /\ ~R1Applies /\ ~R2Applies /\ ~R3Applies) =>
        /\ (IsRunOk(tagIn.a) /\ ~IsRunOk(tagIn.b)) => Returns(tagIn.a, tagIn.b)
        /\ (IsRunOk(tagIn.b) /\ ~IsRunOk(tagIn.a)) => Returns(tagIn.b, tagIn.a)

\* C6: when rules 1-2 do not apply and one token X is an existing tag while
\* the other Y is tag-grammar-valid, not run-resolvable and not
\* explicit-run-ish, the outcome is TagAmbiguity, in either token order.
C6_FootgunAmbiguous ==
    (TagCalled /\ ~R1Applies /\ ~R2Applies /\ R3Applies) =>
        tagOut.kind = "TagAmbiguity"

\* C6 witness: the new name comes first, the existing tag second.
C6_Witness ==
    /\ TagCalled /\ ~R1Applies /\ ~R2Applies
    /\ tagIn.a = <<"t">>
    /\ tagIn.b = <<"b", "a", "s", "e", "l", "i", "n", "e">>
    /\ R3Case(tagIn.b, tagIn.a) /\ ~R3Case(tagIn.a, tagIn.b)
    /\ IsRunOk(tagIn.b)
    /\ tagOut.kind = "TagAmbiguity"

\* C7: when no earlier rule applies, two run-resolvable tokens give
\* TagTwoRuns and two tokens neither of which is run-resolvable give
\* TagNoRun; neither case returns a pair.
C7_TwoRunsOrNoRun ==
    (TagCalled /\ ~R1Applies /\ ~R2Applies /\ ~R3Applies) =>
        /\ (IsRunOk(tagIn.a) /\ IsRunOk(tagIn.b)) => tagOut.kind = "TagTwoRuns"
        /\ (~IsRunOk(tagIn.a) /\ ~IsRunOk(tagIn.b)) => tagOut.kind = "TagNoRun"

\* C7 witness: neither token resolves to a run and neither is tag-valid.
C7_Witness ==
    /\ TagCalled /\ ~R1Applies /\ ~R2Applies /\ ~R3Applies
    /\ tagIn.a # tagIn.b
    /\ ~IsRunOk(tagIn.a) /\ ~IsRunOk(tagIn.b)
    /\ ~IsTagOk(tagIn.a) /\ ~IsTagOk(tagIn.b)
    /\ tagOut.kind = "TagNoRun"

SameOutcome(r1, r2) ==
    /\ r1.kind = r2.kind
    /\ r1.run_ref = r2.run_ref
    /\ r1.tag_name = r2.tag_name

\* C8: resolve_tag_args(a, b) and resolve_tag_args(b, a) give the same
\* (run_ref, tag_name) pair or fail with the same error kind.
C8_OrderIndependent ==
    TagCalled =>
        SameOutcome(tagOut,
                    resolve_tag_args(tagIn.b, tagIn.a, tagIn.existing_tags,
                                     tagIn.tag_ok, tagIn.run_ok))

-----------------------------------------------------------------------------
(* Properties of the diff engine, stated on the two run documents.         *)

DiffCalled == diffOut # DiffNotCalled

\* the paths of a manifest that carry a hash
HashedPaths(m) == {p \in DOMAIN m : m[p].has_hash}

\* some path was added, removed or has a different hash
ManifestsDiffer(ma, mb) ==
    \/ HashedPaths(ma) # HashedPaths(mb)
    \/ \E p \in HashedPaths(ma) \cap HashedPaths(mb) : ma[p].hash # mb[p].hash

HasParamsHash(r) == r.params.present /\ r.params.has_hash

ParamsDiffer(ra, rb) ==
    \/ HasParamsHash(ra) # HasParamsHash(rb)
    \/ HasParamsHash(ra) /\ HasParamsHash(rb) /\ ra.params.hash # rb.params.hash

\* the message a warning value is reduced to
WarningText(w) ==
    CASE w.is_str -> w.text
      [] ~w.is_str /\ w.message # "" -> w.message
      [] ~w.is_str /\ w.message = "" /\ w.code # "" -> w.code
      [] OTHER -> "{}"

WarningsDiffer(ra, rb) ==
    \/ Len(ra.warnings) # Len(rb.warnings)
    \/ \E i \in 1..Len(ra.warnings) :
          WarningText(ra.warnings[i]) # WarningText(rb.warnings[i])

EnvDiffer(ra, rb) ==
    \/ ra.environment.python_version # rb.environment.python_version
    \/ ra.environment.platform # rb.environment.platform

\* C9: truth-changed is true iff the inputs diff has an added, removed or
\* changed path or the params fingerprints differ (present vs absent counts
\* as a difference); outputs, environment, warnings and git play no part.
C9_TruthChangedIff ==
    DiffCalled =>
        (diffOut.summary.truth_changed
           <=> (\/ ManifestsDiffer(diffIn.a.inputs, diffIn.b.inputs)
                \/ ParamsDiffer(diffIn.a, diffIn.b)))

\* C9 witness: the inputs are identical, A has no params and B has a params
\* hash, so truth-changed holds on presence versus absence alone.
C9_Witness ==
    /\ DiffCalled
    /\ diffIn.a.inputs = diffIn.b.inputs
    /\ diffIn.a.inputs # << >>
    /\ ~HasParamsHash(diffIn.a) /\ HasParamsHash(diffIn.b)
    /\ diffOut.summary.truth_changed

\* C10: any-changed is true iff truth-changed, or the outputs diff has an
\* added, removed or changed path, or the environment differs, or the
\* normalized warning sequences differ, or git is reported changed.
C10_AnyChangedIff ==
    DiffCalled =>
        (diffOut.summary.any_changed
           <=> (\/ diffOut.summary.truth_changed
                \/ ManifestsDiffer(diffIn.a.outputs, diffIn.b.outputs)
                \/ EnvDiffer(diffIn.a, diffIn.b)
                \/ WarningsDiffer(diffIn.a, diffIn.b)
                \/ diffOut.git.changed))

\* C10 witness: only the order of the warnings differs; truth-changed is
\* false and any-changed is true.
C10_Witness ==
    /\ DiffCalled
    /\ ~diffOut.summary.truth_changed
    /\ ~ManifestsDiffer(diffIn.a.outputs, diffIn.b.outputs)
    /\ ~EnvDiffer(diffIn.a, diffIn.b)
    /\ ~diffOut.git.changed
    /\ WarningsDiffer(diffIn.a, diffIn.b)
    /\ diffOut.summary.any_changed

-----------------------------------------------------------------------------
(* Properties of the reference resolver                                    *)

\* the token with surrounding whitespace removed
StrippedRef(ref) ==
    IF ref = <<" ", "#", "2", " ">> THEN <<"#", "2">> ELSE ref

\* the token is '#N' or bare digits
IsOrdinalRef(ref) ==
    ref \in { <<"#", "1">>, <<" ", "#", "2", " ">>, <<"2">>, <<"#", "0">> }

\* the N of an ordinal token
OrdinalOf(ref) ==
    CASE ref = <<"#", "1">> -> 1
      [] ref = <<" ", "#", "2", " ">> -> 2
      [] ref = <<"2">> -> 2
      [] ref = <<"#", "0">> -> 0

\* some entry of the file system is written r relative to the working directory
NamesFsEntry(r) ==
    \E p \in DOMAIN fs : Len(p) > Len(Cwd) /\ SubSeq(p, 1, Len(Cwd)) = Cwd /\ RelStr(p) = r

IsTagName(r) == r \in DOMAIN index.tags

\* C1: single-token resolution tries path, tag, ordinal, raw run_id in that
\* order: an existing file system entry is returned verbatim; otherwise a
\* tag name gives the tag's run_id; otherwise '#N' or N gives
\* resolve_ordinal(N); otherwise the token itself is returned unchecked.
C1_ResolvePrecedence ==
    res.op \in {"resolve_user_ref", "resolve_ref"} =>
        LET ref == res.args[1]
            r   == StrippedRef(ref)
        IN  /\ NamesFsEntry(r) => res.out = Ok(r)
            /\ (~NamesFsEntry(r) /\ IsTagName(r)) => res.out = Ok(index.tags[r])
            /\ (~NamesFsEntry(r) /\ ~IsTagName(r) /\ IsOrdinalRef(ref))
                  => res.out = resolve_ordinal(index, OrdinalOf(ref))
            /\ (~NamesFsEntry(r) /\ ~IsTagName(r) /\ ~IsOrdinalRef(ref))
                  => res.out = Ok(r)

\* C1 witness: "baseline" is both a file in the working directory and a tag
\* of a recorded run, and the token came back verbatim.
C1_Witness ==
    /\ res.op = "resolve_user_ref"
    /\ res.args[1] = <<"b", "a", "s", "e", "l", "i", "n", "e">>
    /\ NamesFsEntry(res.args[1])
    /\ IsTagName(res.args[1])
    /\ index.tags[res.args[1]] \in CatalogRunIds
    /\ res.out = Ok(res.args[1])

\* the run a reference denotes: the directory load_run reads run.json from
Denotes(ref) == name(run_dir_from_ref(fs, index, ref).val)

\* C2: one-token pair resolution never yields a self-diff: with at least two
\* orderable runs, a token denoting the latest run gives
\* (second-most-recent, latest), any other token gives (that run, latest),
\* and the two sides never denote the same run.
C2_NoSelfDiff ==
    LET ordered == ordered_run_ids(index.runs)
        latest  == ordered[Len(ordered)]
        prev    == ordered[Len(ordered) - 1]
        x       == res.args[1][1]
    IN  (/\ res.op \in {"resolve_run_pair", "runstore.resolve_run_pair"}
         /\ res.args[1] # None /\ res.args[2] = None
         /\ Len(ordered) >= 2
         /\ res.out.ok)
        => /\ Denotes(x) = latest => res.out.val = <<prev, latest>>
           /\ Denotes(x) # latest
                => /\ res.out.val[2] = latest
                   /\ Denotes(res.out.val[1]) = Denotes(x)
           /\ Denotes(res.out.val[1]) # Denotes(res.out.val[2])

\* the same statement for runstore.resolve_run_pair alone
C2_RunstoreOnly == res.op = "runstore.resolve_run_pair" => C2_NoSelfDiff

-----------------------------------------------------------------------------
(* Further properties of the diff engine                                   *)

\* the run document has no "git" key
LacksGit(r) == ~r.git.present

\* the reason the result gives when a side has no git snapshot
MissingSideReason(ra, rb) ==
    IF LacksGit(ra) /\ LacksGit(rb) THEN "not recorded (A, B)"
    ELSE IF LacksGit(ra) THEN "not recorded (A)"
    ELSE "not recorded (B)"

\* C11: if either run lacks a git snapshot, git is reported not changed, with
\* one reason naming the missing side or sides, whatever the other side's
\* git fields are; any-changed is then decided by truth-changed, outputs,
\* environment and warnings alone.
C11_GitMissingNotChanged ==
    (DiffCalled /\ (LacksGit(diffIn.a) \/ LacksGit(diffIn.b))) =>
        /\ diffOut.git.changed = FALSE
        /\ diffOut.git.reasons = <<MissingSideReason(diffIn.a, diffIn.b)>>
        /\ diffOut.summary.any_changed
             <=> (\/ diffOut.summary.truth_changed
                  \/ ManifestsDiffer(diffIn.a.outputs, diffIn.b.outputs)
                  \/ EnvDiffer(diffIn.a, diffIn.b)
                  \/ WarningsDiffer(diffIn.a, diffIn.b))

\* C11 witness: A has no git key, B is a repository at commit 2222222, the
\* runs agree on everything else, and any-changed is false.
C11_Witness ==
    /\ DiffCalled
    /\ LacksGit(diffIn.a)
    /\ diffIn.b.git = GitRepo("2222222", "v1", "main", "False", "False", "0")
    /\ [diffIn.a EXCEPT !.git = diffIn.b.git] = diffIn.b
    /\ diffOut.git.changed = FALSE
    /\ diffOut.git.reasons = <<"not recorded (A)">>
    /\ ~diffOut.summary.any_changed

HashCalled == hashOut # HashNotCalled

\* the path names in ascending order of Python's str comparison
PathOrder ==
    << <<"a", ".", "t", "x", "t">>, <<"i", "n", ".", "t", "x", "t">>,
       <<"i", "n", ".", "t", "x", "t", ".", "b", "a", "k">>,
       <<"n", "e", "w", ".", "t", "x", "t">>, <<"z", ".", "t", "x", "t">> >>

PathRank(p) == CHOOSE i \in 1..Len(PathOrder) : PathOrder[i] = p

\* strictly ascending: sorted and without repetition
Ascending(l) == \A i \in 1..(Len(l) - 1) : PathRank(l[i]) < PathRank(l[i + 1])

\* C12: the four lists of _diff_hashmaps(A, B) are each sorted ascending,
\* pairwise disjoint, and together hold exactly keys(A) \cup keys(B):
\* added = keys(B) \ keys(A), removed = keys(A) \ keys(B), changed = common
\* paths with different hashes, unchanged = common paths with equal hashes.
C12_FourSortedDisjointLists ==
    HashCalled =>
        LET a == hashIn.a
            b == hashIn.b
            d == hashOut.ab
        IN  /\ Ascending(d.added) /\ Ascending(d.removed)
            /\ Ascending(d.changed) /\ Ascending(d.unchanged)
            /\ Range(d.added) = DOMAIN b \ DOMAIN a
            /\ Range(d.removed) = DOMAIN a \ DOMAIN b
            /\ Range(d.changed) = {k \in DOMAIN a \cap DOMAIN b : a[k] # b[k]}
            /\ Range(d.unchanged) = {k \in DOMAIN a \cap DOMAIN b : a[k] = b[k]}
            /\ Len(d.added) + Len(d.removed) + Len(d.changed) + Len(d.unchanged)
                 = Cardinality(DOMAIN a \cup DOMAIN b)

\* C12 witness: two added paths, one a prefix of the other, come out in
\* order although the set was built in another, with a removed and a
\* changed path beside them.
C12_Witness ==
    /\ HashCalled
    /\ hashOut.ab.added = << <<"i", "n", ".", "t", "x", "t">>,
                             <<"i", "n", ".", "t", "x", "t", ".", "b", "a", "k">> >>
    /\ hashOut.ab.removed = << <<"a", ".", "t", "x", "t">> >>
    /\ hashOut.ab.changed = << <<"n", "e", "w", ".", "t", "x", "t">> >>
    /\ hashOut.ab.unchanged = <<>>

\* C14: diff(A,B).added = diff(B,A).removed and diff(A,B).removed =
\* diff(B,A).added; changed and unchanged are the same in both directions.
C14_PresenceSymmetry ==
    HashCalled =>
        /\ hashOut.ab.added = hashOut.ba.removed
        /\ hashOut.ab.removed = hashOut.ba.added
        /\ hashOut.ab.changed = hashOut.ba.changed
        /\ hashOut.ab.unchanged = hashOut.ba.unchanged

\* C14 witness: every one of the four lists is non-empty in both directions.
C14_Witness ==
    /\ HashCalled
    /\ hashOut.ab.added # <<>> /\ hashOut.ab.removed # <<>>
    /\ hashOut.ab.changed # <<>> /\ hashOut.ab.unchanged # <<>>
    /\ hashOut.ba.removed = hashOut.ab.added
    /\ hashOut.ba.added = hashOut.ab.removed

\* nothing is listed as added, removed or changed
NoPathChange(d) == d.added = <<>> /\ d.removed = <<>> /\ d.changed = <<>>

\* C13: diffing a run against itself gives empty added, removed and changed
\* lists for inputs and outputs, params, environment, warnings and git all
\* not changed, truth-changed false and any-changed false, whatever the run
\* holds.
C13_SelfDiffIsEmpty ==
    (DiffCalled /\ diffIn.a = diffIn.b) =>
        /\ NoPathChange(diffOut.inputs)
        /\ NoPathChange(diffOut.outputs)
        /\ ~diffOut.params.changed
        /\ ~diffOut.environment.changed
        /\ ~diffOut.warnings.changed
        /\ ~diffOut.git.changed
        /\ ~diffOut.summary.truth_changed
        /\ ~diffOut.summary.any_changed

\* C13 witness: the run has an input, an output entry without a hash, no
\* params and no git snapshot.
C13_Witness ==
    /\ DiffCalled /\ diffIn.a = diffIn.b
    /\ DOMAIN diffIn.a.inputs # {}
    /\ \E p \in DOMAIN diffIn.a.outputs : ~diffIn.a.outputs[p].has_hash
    /\ ~diffIn.a.params.present
    /\ LacksGit(diffIn.a)
    /\ diffOut.inputs.unchanged # <<>>
    /\ ~diffOut.summary.any_changed

\* the process exit status is non-zero
SignalsFailure == diffOut.exit # 0

\* C15: with fail-on none the diff never signals failure; with truth it
\* signals failure iff truth-changed; with any it signals failure iff
\* any-changed.  In particular fail-on truth does not signal failure when
\* inputs and params agree, whatever outputs, environment, warnings and git
\* do.
C15_ExitContract ==
    DiffCalled =>
        /\ diffIn.fail_on = "none" => ~SignalsFailure
        /\ diffIn.fail_on = "truth"
             => (SignalsFailure <=> diffOut.summary.truth_changed)
        /\ diffIn.fail_on = "any"
             => (SignalsFailure <=> diffOut.summary.any_changed)
        /\ (/\ diffIn.fail_on = "truth"
            /\ ~ManifestsDiffer(diffIn.a.inputs, diffIn.b.inputs)
            /\ ~ParamsDiffer(diffIn.a, diffIn.b))
             => ~SignalsFailure

\* C15 witness: outputs, environment, warnings and git all changed, inputs
\* and params did not, and fail-on truth exits 0.
C15_Witness ==
    /\ DiffCalled
    /\ diffIn.fail_on = "truth"
    /\ ManifestsDiffer(diffIn.a.outputs, diffIn.b.outputs)
    /\ EnvDiffer(diffIn.a, diffIn.b)
    /\ WarningsDiffer(diffIn.a, diffIn.b)
    /\ diffOut.git.changed
    /\ diffOut.summary.any_changed
    /\ ~diffOut.summary.truth_changed
    /\ diffOut.exit = 0

-----------------------------------------------------------------------------
(* Properties of the catalog ordering                                      *)

\* the entries with a non-empty run_id and a parsable timestamp
GoodEntries == {EntryFirst, EntryTie, EntryLater, EntryPadded}

\* the second of the minute 16:08 a good entry was recorded in, by run_id
SecondOf(run_id) ==
    CASE run_id = EntryPadded.run_id -> 0
      [] run_id = EntryFirst.run_id -> 1
      [] run_id = EntryTie.run_id -> 1
      [] run_id = EntryLater.run_id -> 2

\* how many times x occurs in seq
Count(seq, x) == Cardinality({i \in 1..Len(seq) : seq[i] = x})

\* how many good entries of runs carry run_id
GoodCount(runs, run_id) ==
    Cardinality({i \in 1..Len(runs) : runs[i] \in GoodEntries /\ runs[i].run_id = run_id})

\* C16: ordered_run_ids() returns without an error exactly the run_ids of
\* the entries with a non-empty run_id and a parsable timestamp, each as
\* often as it occurs, in non-decreasing order of timestamp; malformed
\* entries take no position.
C16_OrderedRunIds ==
    res.op = "ordered_run_ids" =>
        LET out == res.out.val IN
        /\ res.out.ok
        /\ Len(out) = Cardinality({i \in 1..Len(index.runs) : index.runs[i] \in GoodEntries})
        /\ \A e \in GoodEntries : Count(out, e.run_id) = GoodCount(index.runs, e.run_id)
        /\ \A i \in 1..Len(out) : out[i] \in {e.run_id : e \in GoodEntries}
        /\ \A i \in 1..Len(out), j \in 1..Len(out) :
              i < j => SecondOf(out[i]) <= SecondOf(out[j])

\* C16 witness: a later run, an entry that is not an object, and an earlier
\* run with a padded timestamp give (earlier, later).
C16_Witness ==
    /\ res.op = "ordered_run_ids"
    /\ index.runs = <<EntryLater, NotAnObject, EntryPadded>>
    /\ res.out = Ok(<<EntryPadded.run_id, EntryLater.run_id>>)

\* the list backwards
Reverse(seq) == [i \in 1..Len(seq) |-> seq[Len(seq) + 1 - i]]

\* C17: entries with equal timestamps come out in ascending lexical run_id
\* order, so the result is the same when the runs list is permuted (here:
\* reversed).
C17_TiesLexical ==
    res.op = "ordered_run_ids" =>
        LET out == res.out.val IN
        /\ \A i \in 1..Len(out), j \in 1..Len(out) :
              (i < j /\ SecondOf(out[i]) = SecondOf(out[j]))
                 => (out[i] = out[j] \/ StrLess(out[i], out[j]))
        /\ ordered_run_ids(Reverse(index.runs)) = out

\* the catalog does not change in a step
CatalogUnchanged == index' = index

\* C18: resolve_ordinal(n) returns the n-th element of ordered_run_ids() for
\* 1 <= n <= N and fails with the out-of-range error for n = 0, negative n
\* and n > N; the catalog is unchanged either way.
C18_ResolveOrdinal ==
    [][ res'.op = "resolve_ordinal" =>
          LET n       == res'.args[1]
              ordered == ordered_run_ids(index.runs)
          IN  /\ (1 <= n /\ n <= Len(ordered)) => res'.out = Ok(ordered[n])
              /\ (n < 1 \/ n > Len(ordered)) => res'.out = Err("ValueError")
              /\ CatalogUnchanged ]_vars

\* C18 witness: two orderable runs and a malformed entry; n = 0 fails.
C18_Witness ==
    /\ res.op = "resolve_ordinal"
    /\ res.args[1] = 0
    /\ index.runs = <<EntryFirst, EntryGarbageTs, EntryLater>>
    /\ res.out = Err("ValueError")

-----------------------------------------------------------------------------
(* Properties of tagging                                                   *)

\* a step leaves every tag other than the given one as it was
OtherTagsUnchanged(tag) ==
    /\ DOMAIN index'.tags \ {tag} = DOMAIN index.tags \ {tag}
    /\ \A t \in DOMAIN index.tags \ {tag} : index'.tags[t] = index.tags[t]

\* C19: set_tag(tag, run_id, force) with a name inside the grammar: when
\* the name is a tag already and force is false the call fails with the
\* tag-exists error and the tag map is unchanged; when force is true or the
\* name is absent the tag map afterwards maps it to run_id and every other tag
\* is unchanged.  In any step a tag changes its run only by a set_tag call
\* for that tag with force = true.
C19_SetTagForce ==
    [][ /\ (res'.op = "set_tag" /\ res'.args[1] \in NamesInGrammar) =>
              LET tag   == res'.args[1]
                  run_id == res'.args[2]
                  force  == res'.args[3]
              IN  IF tag \in DOMAIN index.tags /\ ~force
                  THEN /\ res'.out = Err("ValueError: exists")
                       /\ index'.tags = index.tags
                  ELSE /\ res'.out.ok
                       /\ tag \in DOMAIN index'.tags
                       /\ index'.tags[tag] = run_id
                       /\ OtherTagsUnchanged(tag)
        /\ \A t \in DOMAIN index.tags \cap DOMAIN index'.tags :
              index'.tags[t] # index.tags[t] =>
                  /\ res'.op = "set_tag"
                  /\ res'.args = <<t, index'.tags[t], TRUE>> ]_vars

\* C19 witness: baseline points at the first run; tagging the later run as
\* baseline without force has failed and baseline still points at the first.
C19_Witness ==
    /\ res.op = "set_tag"
    /\ res.args = <<(<<"b", "a", "s", "e", "l", "i", "n", "e">>), EntryLater.run_id, FALSE>>
    /\ res.out = Err("ValueError: exists")
    /\ <<"b", "a", "s", "e", "l", "i", "n", "e">> \in DOMAIN index.tags
    /\ index.tags[<<"b", "a", "s", "e", "l", "i", "n", "e">>] = EntryFirst.run_id

\* digits only, or "#" followed by digits
OrdinalSyntax(tag) == isdigit(tag) \/ HashDigits(tag)

\* C20: set_tag rejects "123", "#3", " a", "a ", "a b", "a!" and the empty
\* name with the catalog unchanged, and accepts "a.b-c_9" as a name; from
\* the empty catalog, after every set_tag and del_tag every tag name matches
\* ^[A-Za-z0-9][A-Za-z0-9._-]*$, holds no whitespace and has no ordinal
\* syntax.
C20_TagGrammarInvariant ==
    [][ /\ (res'.op = "set_tag" /\ res'.args[1] \in NamesOutsideGrammar) =>
              /\ ~res'.out.ok
              /\ index' = index
        /\ (res'.op = "set_tag" /\ res'.args[1] = <<"a", ".", "b", "-", "c", "_", "9">>) =>
              \/ /\ res'.out.ok
                 /\ res'.args[1] \in DOMAIN index'.tags
              \/ /\ res'.out = Err("ValueError: exists")
                 /\ res'.args[1] \in DOMAIN index.tags
        /\ \A tag \in DOMAIN index'.tags :
              /\ tag \notin NamesOutsideGrammar
              /\ TAG_RE(tag)
              /\ ~ \E i \in 1..Len(tag) : isspace(tag[i])
              /\ ~OrdinalSyntax(tag) ]_vars

\* C20 witness: a.b-c_9 is a tag and tagging a run as "a!" has failed.
C20_Witness ==
    /\ res.op = "set_tag"
    /\ res.args[1] = <<"a", "!">>
    /\ ~res.out.ok
    /\ <<"a", ".", "b", "-", "c", "_", "9">> \in DOMAIN index.tags

-----------------------------------------------------------------------------
(* Properties of record                                                    *)

\* C21: from the empty catalog, after every step no two entries of the runs
\* list have the same run_id, and a record whose generated run_id is that of
\* a run already in the catalog fails and appends nothing.
C21_RunIdUnique ==
    [][ /\ \A i \in 1..Len(index'.runs), j \in 1..Len(index'.runs) :
              i # j => index'.runs[i].run_id # index'.runs[j].run_id
        /\ (res'.op = "record" /\ res'.args[1] \in CatalogRunIds) =>
              /\ ~res'.out.ok
              /\ index' = index ]_vars

\* C21 witness: one run is in the catalog and a record that drew the same
\* run_id has failed.
C21_Witness ==
    /\ res.op = "record"
    /\ res.out = Err("FileExistsError")
    /\ Len(index.runs) = 1
    /\ index.runs[1].run_id = res.args[1]

-----------------------------------------------------------------------------
(* Properties of load_index                                                *)

\* the value under a key is absent or of the type wanted
AbsentOrOfType(field, t) == field.t \in {"missing", t}

\* the ValueErrors load_index raises
CorruptCatalog ==
    { "ValueError: invalid JSON", "ValueError: expected an object",
      "ValueError: runs must be a list", "ValueError: tags must be a dict" }

-----------------------------------------------------------------------------
(* Properties of pair resolution                                           *)

\* a resolve_run_pair call of either module has returned or raised
PairCalled == res.op \in {"resolve_run_pair", "runstore.resolve_run_pair"}

\* C23: with no token the pair is (second-most-recent, most-recent) of
\* ordered_run_ids(), and the call fails with NotEnoughRuns (RuntimeError)
\* when ordered_run_ids() has fewer than two elements; with one token it
\* fails with NotEnoughRuns in that case too, whatever the token.
C23_NotEnoughRuns ==
    PairCalled =>
        LET ordered == ordered_run_ids(index.runs)
            N       == Len(ordered)
        IN  /\ (res.args = <<None, None>> /\ N >= 2) =>
                  res.out = Ok(<<ordered[N - 1], ordered[N]>>)
            /\ (res.args[2] = None /\ N < 2) => res.out = Err("RuntimeError")

\* C23 witness: two runs, the later one recorded first; no token gives
\* (earlier, later).
C23_Witness ==
    /\ res.op = "resolve_run_pair"
    /\ res.args = <<None, None>>
    /\ Len(index.runs) = 2
    /\ index.runs[1].timestamp = utc_timestamp(2)
    /\ index.runs[2].timestamp = utc_timestamp(1)
    /\ res.out = Ok(<<index.runs[2].run_id, index.runs[1].run_id>>)

\* C23 second case: one run only, and a one-token call naming it has failed.
C23_OneTokenOneRun ==
    /\ res.op = "resolve_run_pair"
    /\ Len(index.runs) = 1
    /\ res.args = <<Some(index.runs[1].run_id), None>>
    /\ res.out = Err("RuntimeError")

-----------------------------------------------------------------------------
(* Properties of references that are paths into the run store              *)

\* the strings naming a path at any depth inside the directory of run_id
InsidePaths(run_id) == {PathStr(RunDir(run_id) \o rel) : rel \in RelInside}

\* C24: for an existing path at any depth inside runs/<run_id>/,
\* run_id_from_ref, load_run and prov show give <run_id>; prov diff of two
\* such paths compares their two runs; prov tag of such a path either tags
\* <run_id> or fails only because the tag exists and --force was not given.
C24_IdentityFromPath ==
    \A ida \in StoredRuns, idb \in StoredRuns :
        /\ (res.op \in {"run_id_from_ref", "load_run"}
              /\ res.args[1] \in InsidePaths(ida)) => res.out = Ok(ida)
        /\ (res.op = "cli.show" /\ res.args[1] \in InsidePaths(ida)) =>
              (res.out.ok /\ res.out.val.run = ida)
        /\ (res.op = "cli.diff" /\ res.args[1] \in InsidePaths(ida)
              /\ res.args[2] \in InsidePaths(idb)) =>
              (res.out.ok /\ res.out.val.run = <<ida, idb>>)
        /\ (res.op = "cli.tag" /\ res.args[1] \in InsidePaths(ida)) =>
              \/ res.out = Ok(ida) /\ index.tags[res.args[2]] = ida
              \/ res.out = Err("BadParameter: tag exists") /\ ~res.args[3]

\* C24 restricted to run_id_from_ref, load_run and prov diff
C24_RunstoreOnly ==
    \A ida \in StoredRuns, idb \in StoredRuns :
        /\ (res.op \in {"run_id_from_ref", "load_run"}
              /\ res.args[1] \in InsidePaths(ida)) => res.out = Ok(ida)
        /\ (res.op = "cli.diff" /\ res.args[1] \in InsidePaths(ida)
              /\ res.args[2] \in InsidePaths(idb)) =>
              (res.out.ok /\ res.out.val.run = <<ida, idb>>)

\* C24 restricted to the paths the run directory, run.json in it, and
\* files directly in it
C24_ShowShallow ==
    \A ida \in StoredRuns :
        /\ (res.op = "cli.show"
              /\ res.args[1] \in {PathStr(RunDir(ida)), PathStr(RunDir(ida) \o <<RUN_JSON>>)})
             => (res.out.ok /\ res.out.val.run = ida)
        /\ (res.op = "cli.tag"
              /\ res.args[1] \in {PathStr(RunDir(ida)), PathStr(RunDir(ida) \o <<RUN_JSON>>)})
             => (res.out = Ok(ida) \/ res.out = Err("BadParameter: tag exists"))

-----------------------------------------------------------------------------
(* Properties of concurrent commands                                       *)

\* process p has finished its command without an error
Succeeded(p) == procs[p].pc = "done" /\ procs[p].out.ok

\* the update of p's command is in index.json
UpdatePresent(p) ==
    IF procs[p].cmd = "tag"
    THEN ProcTag(p) \in DOMAIN index.tags
    ELSE procs[p].run_id \in {index.runs[i].run_id : i \in 1..Len(index.runs)}

\* C25: when two commands have both succeeded, index.json holds the update
\* of the one that wrote last, and holds the update of the other exactly
\* when the last writer loaded index.json after the other had written: run
\* one after the other both updates are present, and a writer that loaded
\* before the other's write wipes that write out.
C25_LastWriterWins ==
    \A p \in Procs, q \in Procs :
        (p # q /\ Succeeded(p) /\ Succeeded(q) /\ procs[q].wrote = 2) =>
            /\ UpdatePresent(q)
            /\ UpdatePresent(p) <=> (p \in procs[q].saw)

\* C25 witness: process 1 tagged and process 2 recorded, both succeeded,
\* process 2 wrote last having loaded before process 1 wrote, and the tag
\* of process 1 is not in index.json.
C25_Witness ==
    /\ Succeeded(1) /\ Succeeded(2)
    /\ procs[1].cmd = "tag" /\ procs[2].cmd = "record"
    /\ procs[2].wrote = 2
    /\ 1 \notin procs[2].saw
    /\ ProcTag(1) \notin DOMAIN index.tags
    /\ UpdatePresent(2)

\* C25, the sequential case: two tag commands one after the other, both tags
\* are in index.json.
C25_Sequential ==
    /\ Succeeded(1) /\ Succeeded(2)
    /\ procs[1].cmd = "tag" /\ procs[2].cmd = "tag"
    /\ procs[2].wrote = 2
    /\ 1 \in procs[2].saw
    /\ DOMAIN index.tags = {ProcTag(1), ProcTag(2)}

\* run.json of a run is on disk
RunDocumentExists(run_id) == (resolve(RunDir(run_id)) \o <<RUN_JSON>>) \in DOMAIN fs

\* C30: in every state, one where a record has failed part-way or is in
\* progress included, every entry of the catalog refers to a run whose
\* run.json is on disk.
C30_DocumentBeforeEntry ==
    \A i \in 1..Len(index.runs) : RunDocumentExists(index.runs[i].run_id)

\* C30 witness: one record has failed after making its run directory, the
\* other has written run.json and has not appended its entry yet.
C30_Witness ==
    /\ procs[1].cmd = "record" /\ procs[1].pc = "done"
    /\ procs[1].out = Err("FileNotFoundError")
    /\ procs[2].cmd = "record" /\ procs[2].pc = "rec_append"
    /\ RunDocumentExists(procs[2].run_id)
    /\ procs[2].run_id \notin {index.runs[i].run_id : i \in 1..Len(index.runs)}

-----------------------------------------------------------------------------
(* Properties of the output options                                        *)

\* prov show or prov diff was given --format json and --abs-paths
JsonWithAbsPaths ==
    \/ res.op = "cli.show" /\ res.args[2] = "json" /\ res.args[3]
    \/ res.op = "cli.diff" /\ res.args[3] = "json" /\ res.args[4]

\* C26: prov show and prov diff given --format json with --abs-paths exit
\* with a non-zero status and an error about --abs-paths, whatever the run
\* reference, and print no JSON.
C26_JsonRejectsAbsPaths ==
    JsonWithAbsPaths =>
        /\ ~res.out.ok
        /\ res.out.err = "BadParameter: --abs-paths"

\* C26, what the commands do: with references that resolve, JSON is printed
\* and the exit status is 0.
C26_JsonPrinted ==
    (JsonWithAbsPaths /\ res.args[1] \in StoredRuns
       /\ (res.op = "cli.diff" => res.args[2] \in StoredRuns))
    => (res.out.ok /\ res.out.val.printed = "json" /\ res.out.val.exit = 0)

-----------------------------------------------------------------------------
(* Properties of the git comparison                                        *)

\* the fields whose difference makes two repository snapshots differ
GitComparedFields == {"commit", "branch", "detached", "dirty", "untracked"}

\* the compared fields on which two snapshots differ
GitDiffering(ga, gb) == {k \in GitComparedFields : ga[k] # gb[k]}

\* C27: both runs have a git snapshot.  If is_repo differs, git is changed
\* with the single reason "repo status changed"; if neither is a
\* repository, git is not changed whatever the other fields hold; if both
\* are repositories, git is changed iff commit, branch, detached, dirty or
\* untracked differs, with exactly one reason per differing field, and
\* describe is not compared.
C27_GitCompared ==
    (DiffCalled /\ diffIn.a.git.present /\ diffIn.b.git.present) =>
        LET ga  == diffIn.a.git
            gb  == diffIn.b.git
            out == diffOut.git
        IN  /\ (ga.is_repo # gb.is_repo) =>
                  (out.changed /\ out.reasons = <<"repo status changed">>)
            /\ (~ga.is_repo /\ ~gb.is_repo) =>
                  (~out.changed /\ out.reasons = <<>>)
            /\ (ga.is_repo /\ gb.is_repo) =>
                  /\ out.changed <=> (GitDiffering(ga, gb) # {})
                  /\ Len(out.reasons) = Cardinality(GitDiffering(ga, gb))
                  /\ {out.reasons[i] : i \in 1..Len(out.reasons)} = GitDiffering(ga, gb)

\* C27 witness: two repositories at the same commit that differ in describe
\* only: not changed, no reason, exit status 0 under --fail-on any.
C27_Witness ==
    /\ DiffCalled
    /\ diffIn.a.git = GitRepo("1111111", "v1", "main", "False", "False", "0")
    /\ diffIn.b.git = GitRepo("1111111", "v2", "main", "False", "False", "0")
    /\ ~diffOut.git.changed
    /\ diffOut.git.reasons = <<>>
    /\ diffOut.exit = 0

\* C27, second case: a repository with uncommitted changes against a
\* directory that is no repository: the single reason.
C27_RepoStatus ==
    /\ DiffCalled
    /\ diffIn.a.git = GitRepo("1111111", "v1", "main", "False", "True", "3")
    /\ diffIn.b.git = [GitNotARepo EXCEPT !.commit = "1111111", !.dirty = "True"]
    /\ diffOut.git.changed
    /\ diffOut.git.reasons = <<"repo status changed">>

-----------------------------------------------------------------------------
(* Reachability of the disambiguator's fallback                            *)

\* C28: for every pair of tokens and every assignment of the predicates one
\* of rules 1-6 decides the outcome; rule 7, the fallback returning (first
\* token, second token), never does.
C28_Rule7Unreachable == TagCalled => tagOut.rule # 7

\* C28: the fallback decides only when exactly one token resolves to a run
\* and the other is not a valid tag name.
C28_Rule7Case ==
    (TagCalled /\ tagOut.rule = 7) =>
        \/ IsRunOk(tagIn.a) /\ ~IsRunOk(tagIn.b) /\ ~IsTagOk(tagIn.b)
        \/ IsRunOk(tagIn.b) /\ ~IsRunOk(tagIn.a) /\ ~IsTagOk(tagIn.a)

(***************************************************************************)
(* repair.py: rebuilding the catalog from the run documents on disk.       *)
(* A run document (run.json) is the record of its fields run_id, name and  *)
(* timestamp; a field is absent, null, or a string.                        *)
(***************************************************************************)

\* obj.get(field) of a run document
FieldMissing == [kind |-> "missing", val |-> <<>>]

FieldNull == [kind |-> "null", val |-> <<>>]

FieldStr(s) == [kind |-> "str", val |-> s]

\* str(obj.get(field) or "")
str_or_empty(f) == IF f.kind = "str" THEN f.val ELSE <<>>

\* variant: a timestamp that does not parse counts as missing too
needs_timestamp_unparsable(ts) ==
    str_or_empty(ts) = <<>> \/ parse_ts(str_or_empty(ts)) = ParseError

\* ts = str(obj.get("timestamp") or "").strip(); not ts
needs_timestamp(ts) == strip(str_or_empty(ts)) = <<>>

\* _RUNID_TS_RE.match(prefix): \d{4}-\d{2}-\d{2}T\d{2}-\d{2}-\d{2}Z at the start
RunIdTsShape(prefix) ==
    /\ Len(prefix) >= 20
    /\ \A i \in {1, 2, 3, 4, 6, 7, 9, 10, 12, 13, 15, 16, 18, 19} : prefix[i] \in Digits
    /\ \A i \in {5, 8, 14, 17} : prefix[i] = "-"
    /\ prefix[11] = "T"
    /\ prefix[20] = "Z"

\* _infer_timestamp_from_run_id: the timestamp, or <<>> for None
\* the sanity check of _infer_timestamp_from_run_id: ts, or <<>> for None
parseable(ts) == IF parse_ts(ts) = ParseError THEN <<>> ELSE ts

\* _infer_timestamp_from_run_id after prefix = run_id.split("_", 1)[0]
infer_from_prefix(prefix) ==
    IF ~RunIdTsShape(prefix) THEN <<>>
    ELSE parseable(SubSeq(prefix, 1, 13) \o <<":">> \o SubSeq(prefix, 15, 16)
                     \o <<":">> \o SubSeq(prefix, 18, 20))

infer_timestamp_from_run_id(run_id) == infer_from_prefix(SplitOn(run_id, "_", <<>>)[1])

\* run_id = str(obj.get("run_id") or d.name)
doc_run_id(d, obj) ==
    IF str_or_empty(obj.run_id) = <<>> THEN d ELSE obj.run_id.val

\* inferred = _infer(run_id) or _infer(d.name)
first_inferred(a, b) == IF a # <<>> THEN a ELSE b

inferred_timestamp(d, obj) ==
    first_inferred(infer_timestamp_from_run_id(doc_run_id(d, obj)),
                   infer_timestamp_from_run_id(d))

\* the run document after the loop body of rebuild_runs_from_disk
with_timestamp(obj, inferred) ==
    IF needs_timestamp(obj.timestamp) /\ inferred # <<>>
    THEN [obj EXCEPT !.timestamp = FieldStr(inferred)]
    ELSE obj

backfilled(d, obj) == with_timestamp(obj, inferred_timestamp(d, obj))

\* the catalog entry appended for run directory d; after is the run
\* document at the end of the loop body
rebuilt_entry(d, obj, after) ==
    [ is_dict |-> TRUE, run_id |-> doc_run_id(d, obj), name |-> obj.name,
      timestamp |-> strip(str_or_empty(after.timestamp)),
      path |-> PathStr(RunDir(d)) ]

\* key=lambda r: (r.get("timestamp") or "", r.get("run_id") or "")
EntryKeyLess(e1, e2) ==
    \/ StrLess(e1.timestamp, e2.timestamp)
    \/ e1.timestamp = e2.timestamp /\ StrLess(e1.run_id, e2.run_id)

\* runs.sort(key=...) over the rebuilt entries
RECURSIVE SortEntries(_)
SortEntries(S) ==
    IF S = {} THEN <<>>
    ELSE LET m == CHOOSE e \in S : \A o \in S \ {e} : EntryKeyLess(e, o)
         IN  <<m>> \o SortEntries(S \ {m})

\* the run directories rebuild_runs_from_disk reads: directories of runs/ with a run.json
RepairableDirs(files, docs) ==
    { d \in DOMAIN docs : /\ resolve(RunDir(d)) \in DOMAIN files
                          /\ files[resolve(RunDir(d))] = "dir"
                          /\ resolve(RunDir(d)) \o <<RUN_JSON>> \in DOMAIN files }

\* rebuild_runs_from_disk: the entries, the run documents afterwards, timestamps_added
rebuilt(docs, after, dirs, dry_run) ==
    [ runs |-> SortEntries({rebuilt_entry(d, docs[d], after[d]) : d \in dirs}),
      docs |-> [d \in DOMAIN docs |-> IF d \in dirs /\ ~dry_run THEN after[d] ELSE docs[d]],
      timestamps_added |-> Cardinality({d \in dirs : after[d] # docs[d]}) ]

rebuild_runs_from_disk(files, docs, dry_run) ==
    rebuilt(docs, [d \in DOMAIN docs |-> backfilled(d, docs[d])],
            RepairableDirs(files, docs), dry_run)

\* kept_tags: the tags whose run is among the rebuilt entries
kept_tags(tags, runs) ==
    [t \in {u \in DOMAIN tags : \E i \in 1..Len(runs) : runs[i].run_id = tags[u]} |-> tags[t]]

\* build_repaired_index_data
repaired_index_data(existing_tags, rb) ==
    [ data |-> [version |-> 1, runs |-> rb.runs, tags |-> kept_tags(existing_tags, rb.runs)],
      docs |-> rb.docs,
      timestamps_added |-> rb.timestamps_added ]

build_repaired_index_data(files, idx, docs, keep_tags, dry_run) ==
    repaired_index_data(IF keep_tags /\ resolve(prov_dir \o <<index_file_name>>) \in DOMAIN files
                        THEN idx.tags ELSE <<>>,
                        rebuild_runs_from_disk(files, docs, dry_run))

\* index.json.bak-<stamp>
BACKUP == <<"i", "n", "d", "e", "x", ".", "j", "s", "o", "n", ".", "b", "a", "k">>

\* the end of repair_index: the catalog, the files and the run documents
\* afterwards; built is the outcome of build_repaired_index_data
repaired(files, idx, built, backup, dry_run) ==
    LET index_path == resolve(prov_dir \o <<index_file_name>>)
        bak_path == resolve(prov_dir \o <<BACKUP>>)
    IN  [ idx |-> IF dry_run THEN idx ELSE built.data,
          fs |-> IF dry_run THEN files
                 ELSE AddFiles(files,
                        [p \in (IF backup /\ index_path \in DOMAIN files THEN {bak_path} ELSE {})
                                  \cup {index_path} |-> "file"]),
          docs |-> built.docs,
          timestamps_added |-> built.timestamps_added ]

repair_index(files, idx, docs, backup, keep_tags, dry_run) ==
    repaired(files, idx, build_repaired_index_data(files, idx, docs, keep_tags, dry_run),
             backup, dry_run)

(***************************************************************************)
(* SpecRepair: a store with run documents whose timestamp is present,      *)
(* absent, null, blank or unparsable; the user tags, untags, shows, diffs, *)
(* resolves and repairs.                                                   *)
(***************************************************************************)

\* a run directory made by hand: its name carries no timestamp
HANDMADE == <<"h", "a", "n", "d">>

\* the timestamp fields of the run document of run directory d
TimestampFields(d) ==
    { FieldMissing, FieldNull, FieldStr(<<>>), FieldStr(<<" ">>),
      FieldStr(<<"s", "o", "o", "n">>),
      FieldStr(IF infer_timestamp_from_run_id(d) # <<>>
               THEN infer_timestamp_from_run_id(d) ELSE utc_timestamp(0)) }

\* the run documents a run directory d may hold
RunDocuments(d) ==
    { [run_id |-> r, name |-> "demo", timestamp |-> ts] :
        r \in (IF d = HANDMADE THEN {FieldMissing} ELSE {FieldStr(d)}),
        ts \in (IF d = HANDMADE THEN {FieldMissing, FieldStr(utc_timestamp(0))}
                ELSE TimestampFields(d)) }

RepairTagNames == { <<"t">> }

InitRepair ==
    /\ index = [version |-> 1, runs |-> <<EntryFirst, EntryLater>>, tags |-> <<>>]
    /\ fs = AddFiles(AddFiles(AddFiles([p \in { Root, Cwd, resolve(prov_dir),
                                                resolve(prov_dir \o <<runs_dir_name>>),
                                                resolve(prov_dir \o <<index_file_name>>) } |->
                                          IF p = resolve(prov_dir \o <<index_file_name>>)
                                          THEN "file" ELSE "dir"],
                                       RunTree(EntryFirst.run_id, "plain")),
                              RunTree(EntryLater.run_id, "plain")),
                     RunTree(HANDMADE, "plain"))
    /\ runDocs \in [StoredRuns \cup {HANDMADE} -> UNION {RunDocuments(d) : d \in StoredRuns \cup {HANDMADE}}]
    /\ \A d \in DOMAIN runDocs : runDocs[d] \in RunDocuments(d)
    /\ res = NoRes
    /\ tagIn = <<>>
    /\ tagOut = NotCalled
    /\ doc = <<>> /\ loadOut = <<>> /\ procs = <<>>
    /\ diffIn = <<>>
    /\ diffOut = DiffNotCalled
    /\ hashIn = <<>> /\ hashOut = <<>>

\* prov repair-index [--dry-run] [--no-keep-tags] [--no-backup]
Repaired(backup, keep_tags, dry_run, r) ==
    /\ Idle
    /\ index' = r.idx
    /\ fs' = r.fs
    /\ runDocs' = r.docs
    /\ res' = [op |-> "repair", args |-> <<backup, keep_tags, dry_run>>,
               out |-> Ok(<<r.timestamps_added>>)]

Repair(backup, keep_tags, dry_run) ==
    Repaired(backup, keep_tags, dry_run,
             repair_index(fs, index, runDocs, backup, keep_tags, dry_run))

NextRepair ==
    \/ \E tag \in RepairTagNames, run_id \in StoredRuns \cup {HANDMADE}, force \in BOOLEAN :
          SetTag(tag, run_id, force) /\ UNCHANGED <<tagVars, diffVars, hashVars, loadVars, procVars, storeVars>>
    \/ \E tag \in RepairTagNames :
          DelTag(tag) /\ UNCHANGED <<tagVars, diffVars, hashVars, loadVars, procVars, storeVars>>
    \/ \E a \in StoredRuns, b \in RepairTagNames, force \in BOOLEAN :
          CliTag(a, b, force) /\ UNCHANGED <<tagVars, diffVars, hashVars, loadVars, procVars, storeVars>>
    \/ \E ref \in StoredRuns \cup RepairTagNames, format \in Formats :
          CliShow(ref, format, FALSE) /\ UNCHANGED <<tagVars, diffVars, hashVars, loadVars, procVars, storeVars>>
    \/ \E a \in StoredRuns, b \in StoredRuns, format \in Formats :
          CliDiff(a, b, format, FALSE) /\ UNCHANGED <<tagVars, diffVars, hashVars, loadVars, procVars, storeVars>>
    \/ \E ref \in StoredRuns \cup RepairTagNames \cup {<<"#", "1">>} :
          CallResolveUserRef(ref) /\ UNCHANGED <<tagVars, diffVars, hashVars, loadVars, procVars, storeVars>>
    \/ \E backup \in BOOLEAN, keep_tags \in BOOLEAN, dry_run \in BOOLEAN :
          Repair(backup, keep_tags, dry_run) /\ UNCHANGED <<tagVars, diffVars, hashVars, loadVars, procVars>>
    \/ Exit /\ UNCHANGED <<tagVars, diffVars, hashVars, loadVars, procVars, storeVars>>

SpecRepair == InitRepair /\ [][NextRepair]_vars

\* the operations that read runs and write tags
ReadOrTagOps == {"set_tag", "del_tag", "cli.tag", "cli.show", "cli.diff", "resolve_user_ref"}

\* the run documents whose content a step changes
ChangedDocuments == {d \in DOMAIN runDocs : runDocs'[d] # runDocs[d]}

\* C29: recorded runs are immutable: no tag, untag, show, diff or resolve
\* operation changes a field of a run document, set_tag and del_tag leave
\* the runs list and the version of the catalog unchanged, and a run
\* document is written only by repair, which changes nothing but a
\* timestamp field that was missing (absent, null or blank)
C29_RunsImmutable ==
    [][ /\ DOMAIN runDocs' = DOMAIN runDocs
        /\ res'.op \in ReadOrTagOps => runDocs' = runDocs
        /\ res'.op \in {"set_tag", "del_tag", "cli.tag"} =>
              /\ index'.runs = index.runs
              /\ index'.version = index.version
        /\ \A d \in ChangedDocuments :
              /\ res'.op = "repair"
              /\ strip(str_or_empty(runDocs[d].timestamp)) = <<>>
              /\ runDocs'[d] = [runDocs[d] EXCEPT !.timestamp = runDocs'[d].timestamp]
      ]_vars

\* a repair backfilled the timestamp of one run document and left alone the
\* unparsable timestamp of another; a tag was set before
C29_Witness ==
    /\ res.op = "repair"
    /\ res.out.val = <<1>>
    /\ \E d \in DOMAIN runDocs : runDocs[d].timestamp = FieldStr(<<"s", "o", "o", "n">>)
    /\ \E d \in StoredRuns : runDocs[d].timestamp = FieldStr(infer_timestamp_from_run_id(d))
    /\ DOMAIN index.tags # {}

=============================================================================
